---- MODULE Spec2Model ----
(***************************************************************************)
(* A model of pdfmarkdown (ivanvanderbyl/pdfmarkdown): the converter's     *)
(* page loop over the pdfium host, character ingest, word aggregation,     *)
(* line grouping, reading order and heading normalisation.                 *)
(*                                                                         *)
(* Lengths are integers (PDF points).  Where the code multiplies by a      *)
(* decimal factor the comparison is cross-multiplied so that it stays      *)
(* exact over the integers; each such place says so.                       *)
(***************************************************************************)
EXTENDS Integers, Sequences, FiniteSets, TLC

VARIABLES
    \* ---- Converter (converter.go) and the pdfium host it drives
    cpc,          \* position of the running Converter call
    entry,        \* which entry point is running: "none", "ConvertFile", "ConvertPageRange"
    config,       \* Converter.config
    request,      \* [startPage, endPage] as passed by the caller
    range,        \* [startPage, endPage, pageCount] after the "Validate range" block
    pageIndex,    \* the loop variable i
    handles,      \* host handles ever loaded: [kind, index] -> number of close calls
    loadLog,      \* page indices in the order FPDF_LoadPage succeeded
    deferred,     \* [extractPage |-> set of handles, ExtractPage |-> set of handles]
    cur,          \* locals of ExtractPage: [Width, Height, Count] (Count -1: not read)
    ret,          \* the value being returned by ExtractPage / extractPage
    document,     \* Document.Pages collected so far
    result,       \* what the entry point returned: [done, markdown, err]
    faults,       \* page indices at which the host failed a call (history)
    \* ---- extractEnrichedChars (extract.go)
    ingPc,        \* position of extractEnrichedChars: "idle", "loop", "done"
    ingCount,     \* its parameter count
    ingPageHeight,\* its parameter pageHeight
    ingIndex,     \* the loop variable i
    hostLog,      \* what the host answered for glyph 0 .. i-1 (history)
    chars,        \* the slice chars
    charSrc,      \* the glyph index each element of chars was made from (history)
    ingErr,       \* the error returned
    \* ---- aggregateWord (extract.go), called twice on the same input
    wordChars,    \* the chars of the word being built (currentWord)
    wordOut,      \* per run, the EnrichedWord aggregateWord returned (NoWord: not yet)
    \* ---- buildParagraphs (structure.go), up to the lines of its text blocks
    pageWords,    \* the parameter words
    textBlocks,   \* the text blocks after mergeCloseWords
    linesPc,      \* "input": words being supplied, "built": textBlocks computed
    \* ---- determineReadingOrder (columns.go)
    ordParas,     \* the parameter paragraphs
    ordCols,      \* the parameter columns, as detectColumns returned them
    ordered,      \* the slice returned
    ordPc,        \* "input": paragraphs being supplied, "done": returned
    \* ---- normalizeDocumentHeadings (markdown.go)
    headDoc,      \* the Document it is given and rewrites in place
    headPc,       \* "input": pages being filled, "done": normalised
    \* ---- detectHeadings (structure.go), then normalizeDocumentHeadings
    detParas,     \* the page's paragraphs before detectHeadings
    detMin,       \* Config.MinHeadingFontSize in hundredths (115 is 1.15)
    detOut,       \* the paragraphs after detectHeadings
    detDoc,       \* the one-page Document after normalizeDocumentHeadings
    detPc,        \* "input", "detected", "normalised"
    \* ---- deduplicateTables (converter.go) on the combined table list
    dedTables,    \* the tables handed to deduplicateTables
    dedUnique,    \* the tables it returns
    dedPc,        \* "input", "done"
    \* ---- the overlap and distance helpers of utils.go on a pair of rectangles
    geoR1,        \* the first rectangle
    geoR2,        \* the second rectangle
    geoOut,       \* the four results for (r1, r2) and for (r2, r1)
    geoPc,        \* "input", "chosen", "done"
    \* ---- DetectTablesSegmentBased (segments.go) on the words of one page
    segWords,     \* the words of page.Paragraphs, in paragraph order
    segRow,       \* the number of text rows of the page laid out so far
    segOut,       \* the tables DetectTablesSegmentBased returns
    segPc,        \* "input", "done"
    \* ---- expandLigatures and deduplicateCJKChars (extract.go) on the words of a page
    txtWords,     \* the words before expandLigatures
    txtExpanded,  \* the words after expandLigatures
    txtDedup,     \* the words after deduplicateCJKChars
    txtPc,        \* "input", "expanded", "deduplicated"
    \* ---- cellsToTables (table_extract.go) on the cells of a page
    ctCells,      \* the cells handed to cellsToTables
    ctTables,     \* the tables it returns
    ctPc,         \* "input", "done"
    \* ---- groupCharsIntoWords (extract.go) on the glyph stream of a page
    wbChars,      \* the chars of the page, in stream order
    wbBoundaries, \* what detectWordBoundariesRotationAware returns
    wbWords,      \* the calls aggregateWord(currentWord, wordBox), in order
    wbPc,         \* "input", "done"
    \* ---- buildParagraphs (structure.go) on the words of a page
    bpWords,      \* the words passed to buildParagraphs
    bpLines,      \* allLines, the lines of all text blocks
    bpOut,        \* the paragraphs buildParagraphs returns
    bpPc,         \* "input", "done"
    \* ---- the grouping loops of buildSegmentsFromLine, buildBlocksFromTableArea (segments.go) and cellsToTables (table_extract.go), one iteration at a time
    lpItems,      \* the boxes of the words, segments or cells handed to the function
    lpKind,       \* "none", "segments", "blocks", "cells": the loop that runs
    lpClusters,   \* clusters, in the two merge loops
    lpCells,      \* remaining, tables, currentTable, currentCorners of cellsToTables
    lpPc,         \* "input", "loop", "done"
    \* ---- DetectTables on a page of ruling lines and words (table.go)
    tdLines,      \* the ruling lines of the page (Page.Lines)
    tdWords,      \* the words of the page's paragraphs, in order
    tdOut,        \* the tables DetectTables returned
    tdPc          \* "input" or "detected"

convVars == <<cpc, entry, config, request, range, pageIndex, handles, loadLog,
              deferred, cur, ret, document, result, faults>>

ingestVars == <<ingPc, ingCount, ingPageHeight, ingIndex, hostLog, chars, charSrc, ingErr>>

aggVars == <<wordChars, wordOut>>

lineVars == <<pageWords, textBlocks, linesPc>>

orderVars == <<ordParas, ordCols, ordered, ordPc>>

headVars == <<headDoc, headPc>>

detectVars == <<detParas, detMin, detOut, detDoc, detPc>>


dedupVars == <<dedTables, dedUnique, dedPc>>


geomVars == <<geoR1, geoR2, geoOut, geoPc>>


segVars == <<segWords, segRow, segOut, segPc>>


textVars == <<txtWords, txtExpanded, txtDedup, txtPc>>


cellVars == <<ctCells, ctTables, ctPc>>


wbVars == <<wbChars, wbBoundaries, wbWords, wbPc>>


bpVars == <<bpWords, bpLines, bpOut, bpPc>>


lpVars == <<lpItems, lpKind, lpClusters, lpCells, lpPc>>


tdVars == <<tdLines, tdWords, tdOut, tdPc>>


nonConvVars == <<ingestVars, aggVars, lineVars, orderVars, headVars, detectVars, dedupVars,
    geomVars, segVars, textVars, cellVars, wbVars, bpVars, lpVars, tdVars>>
nonIngestVars == <<convVars, aggVars, lineVars, orderVars, headVars, detectVars, dedupVars,
    geomVars, segVars, textVars, cellVars, wbVars, bpVars, lpVars, tdVars>>
nonAggVars == <<convVars, ingestVars, lineVars, orderVars, headVars, detectVars, dedupVars,
    geomVars, segVars, textVars, cellVars, wbVars, bpVars, lpVars, tdVars>>
nonLineVars == <<convVars, ingestVars, aggVars, orderVars, headVars, detectVars, dedupVars,
    geomVars, segVars, textVars, cellVars, wbVars, bpVars, lpVars, tdVars>>
nonOrderVars == <<convVars, ingestVars, aggVars, lineVars, headVars, detectVars, dedupVars,
    geomVars, segVars, textVars, cellVars, wbVars, bpVars, lpVars, tdVars>>
nonHeadVars == <<convVars, ingestVars, aggVars, lineVars, orderVars, detectVars, dedupVars,
    geomVars, segVars, textVars, cellVars, wbVars, bpVars, lpVars, tdVars>>
nonDetectVars == <<convVars, ingestVars, aggVars, lineVars, orderVars, headVars, dedupVars,
    geomVars, segVars, textVars, cellVars, wbVars, bpVars, lpVars, tdVars>>
nonDedupVars == <<convVars, ingestVars, aggVars, lineVars, orderVars, headVars, detectVars,
    geomVars, segVars, textVars, cellVars, wbVars, bpVars, lpVars, tdVars>>
nonGeomVars == <<convVars, ingestVars, aggVars, lineVars, orderVars, headVars, detectVars,
    dedupVars, segVars, textVars, cellVars, wbVars, bpVars, lpVars, tdVars>>
nonSegVars == <<convVars, ingestVars, aggVars, lineVars, orderVars, headVars, detectVars,
    dedupVars, geomVars, textVars, cellVars, wbVars, bpVars, lpVars, tdVars>>
nonTextVars == <<convVars, ingestVars, aggVars, lineVars, orderVars, headVars, detectVars,
    dedupVars, geomVars, segVars, cellVars, wbVars, bpVars, lpVars, tdVars>>
nonCellVars == <<convVars, ingestVars, aggVars, lineVars, orderVars, headVars, detectVars,
    dedupVars, geomVars, segVars, textVars, wbVars, bpVars, lpVars, tdVars>>
nonWbVars == <<convVars, ingestVars, aggVars, lineVars, orderVars, headVars, detectVars,
    dedupVars, geomVars, segVars, textVars, cellVars, bpVars, lpVars, tdVars>>
nonBpVars == <<convVars, ingestVars, aggVars, lineVars, orderVars, headVars, detectVars,
    dedupVars, geomVars, segVars, textVars, cellVars, wbVars, lpVars, tdVars>>
nonLpVars == <<convVars, ingestVars, aggVars, lineVars, orderVars, headVars, detectVars,
    dedupVars, geomVars, segVars, textVars, cellVars, wbVars, bpVars, tdVars>>
nonTdVars == <<convVars, ingestVars, aggVars, lineVars, orderVars, headVars, detectVars,
    dedupVars, geomVars, segVars, textVars, cellVars, wbVars, bpVars, lpVars>>

vars == <<convVars, ingestVars, aggVars, lineVars, orderVars, headVars, detectVars, dedupVars,
         geomVars, segVars, textVars, cellVars, wbVars, bpVars, lpVars, tdVars>>

(***************************************************************************)
(* Bounds of the model.                                                    *)
(***************************************************************************)
MaxPages == 2

(***************************************************************************)
(* Generic helpers.                                                        *)
(***************************************************************************)
Max2(a, b) == IF a >= b THEN a ELSE b
Min2(a, b) == IF a <= b THEN a ELSE b
Abs(a) == IF a < 0 THEN -a ELSE a

RECURSIVE ConcatAll(_)
ConcatAll(ss) == IF ss = <<>> THEN <<>> ELSE Head(ss) \o ConcatAll(Tail(ss))

(***************************************************************************)
(* Errors.  errors.Wrap / errors.Wrapf prefix a message to a cause; an     *)
(* error is kept as [msg, page, cause]: the outermost message, the page    *)
(* number it names (0: none) and the message it wraps.                     *)
(***************************************************************************)
NoErr == [msg |-> "", page |-> 0, cause |-> ""]
NewErr(m) == [msg |-> m, page |-> 0, cause |-> ""]
Wrap(e, m) == [msg |-> m, page |-> 0, cause |-> e.msg]
Wrapf(e, m, n) == [msg |-> m, page |-> n, cause |-> e.msg]

(***************************************************************************)
(* Table de-duplication (ExtractPage's last step).                         *)
(***************************************************************************)
\* calculateTableOverlap as the fraction <<numerator, denominator>>:
\* intersection area over the smaller table's area, <<0, 1>> for "return 0".
calculateTableOverlap(t1, t2) ==
    LET x0 == Max2(t1.BBox.X0, t2.BBox.X0)
        y0 == Max2(t1.BBox.Top, t2.BBox.Top)
        x1 == Min2(t1.BBox.X1, t2.BBox.X1)
        y1 == Min2(t1.BBox.Bottom, t2.BBox.Bottom)
        t1Area == (t1.BBox.X1 - t1.BBox.X0) * (t1.BBox.Bottom - t1.BBox.Top)
        t2Area == (t2.BBox.X1 - t2.BBox.X0) * (t2.BBox.Bottom - t2.BBox.Top)
        smallerArea == Min2(t1Area, t2Area)
    IN  IF x1 <= x0 \/ y1 <= y0 THEN <<0, 1>>
        ELSE IF smallerArea = 0 THEN <<0, 1>>
        ELSE <<(x1 - x0) * (y1 - y0), smallerArea>>

\* overlap > 0.7, cross-multiplied (the denominator is positive)
OverlapSignificant(t1, t2) ==
    LET o == calculateTableOverlap(t1, t2) IN 10 * o[1] > 7 * o[2]

RECURSIVE deduplicateFrom(_, _)
deduplicateFrom(tables, i) ==
    IF i > Len(tables) THEN <<>>
    ELSE LET isDuplicate == \E j \in (i + 1)..Len(tables) :
                                OverlapSignificant(tables[i], tables[j])
         IN  (IF isDuplicate THEN <<>> ELSE <<tables[i]>>)
                 \o deduplicateFrom(tables, i + 1)

deduplicateTables(tables) ==
    IF Len(tables) <= 1 THEN tables ELSE deduplicateFrom(tables, 1)

(***************************************************************************)
(* Document.ToMarkdown and normalizeDocumentHeadings.                      *)
(* A Document is the sequence of its Pages.  Markdown is the sequence of   *)
(* builder calls (tokens) ToMarkdown makes; the empty string is <<>>.      *)
(***************************************************************************)
\* the sizes of a set left ascending (sort.Float64s, not reversed)
RECURSIVE SortDescending_Ascending(_)
SortDescending_Ascending(S) ==
    IF S = {} THEN <<>>
    ELSE LET m == CHOOSE x \in S : \A y \in S : x <= y
         IN  <<m>> \o SortDescending_Ascending(S \ {m})

\* the sizes of a set as a descending sequence (sort.Float64s, then reversed)
RECURSIVE SortDescending(_)
SortDescending(S) ==
    IF S = {} THEN <<>>
    ELSE LET m == CHOOSE x \in S : \A y \in S : y <= x
         IN  <<m>> \o SortDescending(S \ {m})

\* "var maxSize float64; if word.FontSize > maxSize { maxSize = word.FontSize }"
RECURSIVE MaxFontSizeFrom(_, _)
MaxFontSizeFrom(words, maxSize) ==
    IF words = <<>> THEN maxSize
    ELSE MaxFontSizeFrom(Tail(words),
                         IF Head(words).FontSize > maxSize
                         THEN Head(words).FontSize ELSE maxSize)

FirstLineMaxSize(para) == MaxFontSizeFrom(para.Lines[1].Words, 0)

\* the paragraphs normalizeDocumentHeadings collects into "headings"
IsCollectedHeading(para) ==
    para.IsHeading /\ Len(para.Lines) > 0 /\ Len(para.Lines[1].Words) > 0

HeadingSizes(doc) ==
    UNION {{FirstLineMaxSize(doc[pi].Paragraphs[pri]) :
                pri \in {q \in DOMAIN doc[pi].Paragraphs :
                            IsCollectedHeading(doc[pi].Paragraphs[q])}} :
           pi \in DOMAIN doc}

\* a variant: sizeToLevel without the "Max H6" branch
sizeToLevel_Uncapped(uniqueSizes, size) ==
    CHOOSE k \in DOMAIN uniqueSizes : uniqueSizes[k] = size

\* sizeToLevel[size]: position i (from 0) in uniqueSizes gives i + 1, capped at 6
sizeToLevel(uniqueSizes, size) ==
    LET i == CHOOSE k \in DOMAIN uniqueSizes : uniqueSizes[k] = size
    IN  IF i - 1 < 6 THEN i ELSE 6

normalizeDocumentHeadings(doc) ==
    LET fontSizeSet == HeadingSizes(doc)
        uniqueSizes == SortDescending(fontSizeSet)
        fix(para) == IF IsCollectedHeading(para)
                     THEN [para EXCEPT !.HeadingLevel =
                               sizeToLevel(uniqueSizes, FirstLineMaxSize(para))]
                     ELSE para
    IN  IF fontSizeSet = {} THEN doc
        ELSE [pi \in DOMAIN doc |->
                [doc[pi] EXCEPT !.Paragraphs =
                    [pri \in DOMAIN doc[pi].Paragraphs |-> fix(doc[pi].Paragraphs[pri])]]]

applyInlineFormatting(word) ==
    IF word.IsBold /\ word.IsItalic THEN [style |-> "BoldItalic", text |-> word.Text]
    ELSE IF word.IsBold THEN [style |-> "Bold", text |-> word.Text]
    ELSE IF word.IsItalic THEN [style |-> "Italic", text |-> word.Text]
    ELSE IF word.IsMonospace THEN [style |-> "Code", text |-> word.Text]
    ELSE [style |-> "", text |-> word.Text]

ParagraphWords(para) ==
    [li \in DOMAIN para.Lines |->
        [wi \in DOMAIN para.Lines[li].Words |-> para.Lines[li].Words[wi].Text]]

\* the builder calls convertParagraphToMarkdown makes for one paragraph
convertParagraphToMarkdown(para) ==
    IF Len(para.Lines) = 0 THEN <<>>
    ELSE IF para.IsHeading
    THEN <<[k |-> "H",
            level |-> IF para.HeadingLevel \in 1..6 THEN para.HeadingLevel ELSE 1,
            body |-> ParagraphWords(para)]>>
    ELSE IF para.IsCode
    THEN <<[k |-> "CodeBlocks", level |-> 0, body |-> ParagraphWords(para)]>>
    ELSE IF para.IsList
    THEN <<[k |-> "List", level |-> 0, body |-> ParagraphWords(para)]>>
    ELSE <<[k |-> "PlainText", level |-> 0,
            body |-> [li \in DOMAIN para.Lines |->
                        [wi \in DOMAIN para.Lines[li].Words |->
                            applyInlineFormatting(para.Lines[li].Words[wi])]]]>>

LF == [k |-> "LF", level |-> 0, body |-> <<>>]
HorizontalRule == [k |-> "HorizontalRule", level |-> 0, body |-> <<>>]

convertTableToMarkdown(table) ==
    IF Len(table.Rows) = 0 THEN <<>>
    ELSE <<[k |-> "Table", level |-> 0, body |-> table.BBox]>>

\* a variant: the separator is written before every page, the first included
PageToTokens_RuleBeforeEveryPage(page, i, cfg) ==
    (IF cfg.IncludePageBreaks THEN <<HorizontalRule, LF>> ELSE <<>>)
    \o ConcatAll([pri \in DOMAIN page.Paragraphs |->
                    convertParagraphToMarkdown(page.Paragraphs[pri]) \o <<LF>>])
    \o (IF cfg.DetectTables /\ Len(page.Tables) > 0
        THEN ConcatAll([ti \in DOMAIN page.Tables |->
                          convertTableToMarkdown(page.Tables[ti]) \o <<LF>>])
        ELSE <<>>)

\* the builder calls of one turn of "for i, page := range d.Pages" (i from 1)
PageToTokens(page, i, cfg) ==
    (IF i > 1 /\ cfg.IncludePageBreaks THEN <<HorizontalRule, LF>> ELSE <<>>)
    \o ConcatAll([pri \in DOMAIN page.Paragraphs |->
                    convertParagraphToMarkdown(page.Paragraphs[pri]) \o <<LF>>])
    \o (IF cfg.DetectTables /\ Len(page.Tables) > 0
        THEN ConcatAll([ti \in DOMAIN page.Tables |->
                          convertTableToMarkdown(page.Tables[ti]) \o <<LF>>])
        ELSE <<>>)

ToMarkdown(doc, cfg) ==
    LET d == normalizeDocumentHeadings(doc)
    IN  ConcatAll([i \in DOMAIN d |-> PageToTokens(d[i], i, cfg)])

(***************************************************************************)
(* The pdfium host and the pages it serves.                                *)
(* What the layout pipeline makes of a page's text layer is summarised by  *)
(* a PageContent: the glyph count, the paragraphs buildParagraphs returns, *)
(* the ruling lines extractLinesFromPage finds and the tables each         *)
(* detector would return.  The pipeline itself is modelled further down.   *)
(***************************************************************************)
HostErr == NewErr("pdfium")

PageWidths == {612, 842}
PageHeights == {792}

ConvWord(text, size) ==
    [Text |-> text, FontSize |-> size, IsBold |-> FALSE, IsItalic |-> FALSE,
     IsMonospace |-> FALSE]
ConvPara(text, size, heading, level) ==
    [Lines |-> <<[Words |-> <<ConvWord(text, size)>>]>>,
     IsHeading |-> heading, HeadingLevel |-> level, IsList |-> FALSE, IsCode |-> FALSE]

ConvTable(x0, top, x1, bottom) ==
    [BBox |-> [X0 |-> x0, Top |-> top, X1 |-> x1, Bottom |-> bottom],
     Rows |-> <<"r1", "r2">>]
TableA == ConvTable(0, 0, 100, 100)
TableB == ConvTable(5, 5, 105, 105)
TableC == ConvTable(200, 0, 300, 100)
RuleEdge == [X0 |-> 50, X1 |-> 250, Top |-> 100, Bottom |-> 100, Orientation |-> "h"]

PageContents ==
    { [Count |-> 0, Paragraphs |-> <<>>, Lines |-> <<>>,
       SegTables |-> <<>>, LineTables |-> <<>>],
      [Count |-> 9, Paragraphs |-> <<ConvPara("Title", 24, TRUE, 1), ConvPara("body", 12, FALSE, 0)>>,
       Lines |-> <<>>, SegTables |-> <<TableC>>, LineTables |-> <<>>],
      [Count |-> 7, Paragraphs |-> <<ConvPara("Sub", 18, TRUE, 1)>>,
       Lines |-> <<RuleEdge>>, SegTables |-> <<TableA>>, LineTables |-> <<TableB, TableC>>] }

Configs ==
    [IncludePageBreaks : BOOLEAN, DetectTables : BOOLEAN, UseSegmentBasedTables : BOOLEAN]

NoPage == [Number |-> 0, Width |-> 0, Height |-> 0, Paragraphs |-> <<>>,
           Lines |-> <<>>, Tables |-> <<>>]

(***************************************************************************)
(* ExtractPage after FPDFText_CountChars succeeded.                        *)
(***************************************************************************)
\* a variant: table detection that ignores Config.DetectTables
ExtractPageTables_Always(cfg, lines, segTables, lineTables) ==
    deduplicateTables(
        (IF cfg.UseSegmentBasedTables THEN segTables ELSE <<>>)
        \o (IF Len(lines) > 0 THEN lineTables ELSE <<>>))

\* "Detect tables if enabled": the tables ExtractPage stores in the Page
ExtractPageTables(cfg, lines, segTables, lineTables) ==
    IF cfg.DetectTables
    THEN deduplicateTables(
             (IF cfg.UseSegmentBasedTables THEN segTables ELSE <<>>)
             \o (IF Len(lines) > 0 THEN lineTables ELSE <<>>))
    ELSE <<>>

\* a variant: the empty page returned without its dimensions
ExtractPageBody_NoSize(cfg, pageNumber, size, content, linesOk) ==
    [Number |-> pageNumber, Width |-> 0, Height |-> 0,
     Paragraphs |-> content.Paragraphs,
     Lines |-> IF content.Count = 0 \/ ~linesOk THEN <<>> ELSE content.Lines,
     Tables |-> <<>>]

\* the Page ExtractPage returns for a text layer of content.Count glyphs;
\* linesOk: whether extractLinesFromPage succeeded (its failure is not fatal)
ExtractPageBody(cfg, pageNumber, size, content, linesOk) ==
    IF content.Count = 0
    THEN [Number |-> pageNumber, Width |-> size.Width, Height |-> size.Height,
          Paragraphs |-> <<>>, Lines |-> <<>>, Tables |-> <<>>]
    ELSE LET lines == IF linesOk THEN content.Lines ELSE <<>>
         IN  [Number |-> pageNumber, Width |-> size.Width, Height |-> size.Height,
              Paragraphs |-> content.Paragraphs, Lines |-> lines,
              Tables |-> ExtractPageTables(cfg, lines, content.SegTables,
                                           content.LineTables)]

(***************************************************************************)
(* Handles and deferred closes.  "defer instance.X_Close(...)" registers   *)
(* a handle with the function's frame; the frame's return closes it.       *)
(***************************************************************************)
Opened(h, hs) == [x \in (DOMAIN hs) \cup {h} |-> IF x = h THEN 0 ELSE hs[x]]
Closed(S, hs) == [x \in DOMAIN hs |-> IF x \in S THEN hs[x] + 1 ELSE hs[x]]

\* a variant: a close written at the end of the success path instead of deferred
RunDeferred_OnSuccessOnly(frame, r) == IF r = NoErr THEN frame ELSE {}

\* the handles a returning frame closes: every handle its defers registered
RunDeferred(frame, r) == frame

\* the "Validate range" block of ConvertPageRange
ValidateRange(startPage, endPage, pageCount) ==
    LET s == IF startPage < 0 THEN 0 ELSE startPage
        e == IF endPage < 0 \/ endPage >= pageCount THEN pageCount - 1 ELSE endPage
    IN  [startPage |-> s, endPage |-> e, pageCount |-> pageCount]

\* a variant: the range check off by one
RangeInvalid_OffByOne(r) == r.startPage > r.endPage + 1

RangeInvalid(r) == r.startPage > r.endPage

\* a variant: a failed page is skipped and the loop goes on
LoopStep_SkipFailed(r, i, doc) ==
    IF r.err # NoErr
    THEN [stop |-> FALSE, err |-> NoErr, document |-> doc, pageIndex |-> i + 1]
    ELSE [stop |-> FALSE, err |-> NoErr,
          document |-> Append(doc, r.page), pageIndex |-> i + 1]

\* what the page loop does with extractPage's return value r for index i:
\* [stop, err, document, pageIndex]
LoopStep(r, i, doc) ==
    IF r.err # NoErr
    THEN [stop |-> TRUE, err |-> Wrapf(r.err, "failed to extract page", i + 1),
          document |-> doc, pageIndex |-> i]
    ELSE [stop |-> FALSE, err |-> NoErr,
          document |-> Append(doc, r.page), pageIndex |-> i + 1]

Pending == [done |-> FALSE, markdown |-> <<>>, err |-> NoErr]
Returned(md, e) == [done |-> TRUE, markdown |-> md, err |-> e]

DocHandle == <<"doc", 0>>

\* extractEnrichedChars not running
IngestIdle ==
    /\ ingPc = "idle"
    /\ ingCount = 0
    /\ ingPageHeight = 0
    /\ ingIndex = 0
    /\ hostLog = <<>>
    /\ chars = <<>>
    /\ charSrc = <<>>
    /\ ingErr = NewErr("not returned")

\* the two runs of the same extraction that are compared
Runs == {1, 2}
NoWord == [Text |-> <<>>]

\* aggregateWord not called, no char collected
AggIdle ==
    /\ wordChars = <<>>
    /\ wordOut = [r \in Runs |-> NoWord]

\* buildParagraphs not called, no word supplied
LinesIdle ==
    /\ pageWords = <<>>
    /\ textBlocks = <<>>
    /\ linesPc = "input"

\* determineReadingOrder not called, no paragraph and no column supplied
OrderIdle ==
    /\ ordParas = <<>>
    /\ ordCols = <<>>
    /\ ordered = <<>>
    /\ ordPc = "input"

\* normalizeDocumentHeadings not called, the document has one empty page
HeadIdle ==
    /\ headDoc = <<[Number |-> 1, Paragraphs |-> <<>>]>>
    /\ headPc = "input"

\* detectHeadings not called, no paragraph supplied
DetectIdle ==
    /\ detParas = <<>>
    /\ detMin = 115
    /\ detOut = <<>>
    /\ detDoc = <<>>
    /\ detPc = "input"

\* deduplicateTables not called
DedupIdle ==
    /\ dedTables = <<>>
    /\ dedUnique = <<>>
    /\ dedPc = "input"

NoRect == [X0 |-> 0, Y0 |-> 0, X1 |-> 0, Y1 |-> 0]

\* no rectangle pair chosen
GeomIdle ==
    /\ geoR1 = NoRect
    /\ geoR2 = NoRect
    /\ geoOut = <<>>
    /\ geoPc = "input"

\* DetectTablesSegmentBased not called
SegIdle ==
    /\ segWords = <<>>
    /\ segRow = 0
    /\ segOut = <<>>
    /\ segPc = "input"

\* no word handed to expandLigatures
TextIdle ==
    /\ txtWords = <<>>
    /\ txtExpanded = <<>>
    /\ txtDedup = <<>>
    /\ txtPc = "input"

\* cellsToTables not called
CellIdle ==
    /\ ctCells = <<>>
    /\ ctTables = <<>>
    /\ ctPc = "input"

\* groupCharsIntoWords not called
WbIdle ==
    /\ wbChars = <<>>
    /\ wbBoundaries = <<>>
    /\ wbWords = <<>>
    /\ wbPc = "input"

\* buildParagraphs not called
BpIdle ==
    /\ bpWords = <<>>
    /\ bpLines = <<>>
    /\ bpOut = <<>>
    /\ bpPc = "input"

\* no grouping loop entered
LpIdle ==
    /\ lpItems = <<>>
    /\ lpKind = "none"
    /\ lpClusters = <<>>
    /\ lpCells = [remaining |-> <<>>, tables |-> <<>>, currentTable |-> <<>>,
                  currentCorners |-> {}]
    /\ lpPc = "input"

TdIdle ==
    /\ tdLines = <<>>
    /\ tdWords = <<>>
    /\ tdOut = <<>>
    /\ tdPc = "input"

\* everything but the Converter at rest
OtherIdle == IngestIdle /\ AggIdle /\ LinesIdle /\ OrderIdle /\ HeadIdle /\ DetectIdle /\ DedupIdle /\ GeomIdle /\ SegIdle /\ TextIdle /\ CellIdle /\ WbIdle /\ BpIdle /\ LpIdle /\ TdIdle

\* the fixed configuration used where the Converter is not the subject
DefaultConfig == [IncludePageBreaks |-> TRUE, DetectTables |-> TRUE,
                  UseSegmentBasedTables |-> FALSE]

ConvInit ==
    /\ cpc = "idle"
    /\ entry = "none"
    /\ config \in Configs
    /\ request = [startPage |-> 0, endPage |-> 0]
    /\ range = [startPage |-> 0, endPage |-> 0, pageCount |-> 0]
    /\ pageIndex = 0
    /\ handles = [x \in {} |-> 0]
    /\ loadLog = <<>>
    /\ deferred = [Convert |-> {}, extractPage |-> {}, ExtractPage |-> {}]
    /\ cur = [Width |-> 0, Height |-> 0, Count |-> -1]
    /\ ret = [page |-> NoPage, err |-> NoErr]
    /\ document = <<>>
    /\ result = Pending
    /\ faults = {}

\* an entry point returns (md, e): its deferred FPDF_CloseDocument runs
ConvReturn(md, e, hs, df) ==
    /\ result' = Returned(md, e)
    /\ handles' = Closed(RunDeferred(df.Convert, e), hs)
    /\ deferred' = [df EXCEPT !.Convert = {}]
    /\ cpc' = "done"

\* ConvertFile: OpenDocument, then convertDocument up to its page loop
ConvertFile ==
    /\ cpc = "idle"
    /\ UNCHANGED nonConvVars
    /\ entry' = "ConvertFile"
    /\ \E openOk, countOk \in BOOLEAN, n \in 0..MaxPages :
         IF ~openOk
         THEN /\ result' = Returned(<<>>, Wrap(HostErr, "failed to open PDF document"))
              /\ cpc' = "done"
              /\ UNCHANGED <<handles, deferred, range, pageIndex>>
         ELSE IF ~countOk
         THEN /\ result' = Returned(<<>>, Wrap(HostErr, "failed to get page count"))
              /\ cpc' = "done"
              /\ handles' = Closed({DocHandle}, Opened(DocHandle, handles))
              /\ UNCHANGED <<deferred, range, pageIndex>>
         ELSE /\ handles' = Opened(DocHandle, handles)
              /\ deferred' = [deferred EXCEPT !.Convert = {DocHandle}]
              /\ range' = [startPage |-> 0, endPage |-> n - 1, pageCount |-> n]
              /\ pageIndex' = 0
              /\ cpc' = "loop"
              /\ UNCHANGED result
    /\ UNCHANGED <<config, request, loadLog, cur, ret, document, faults>>

\* ConvertPageRange: OpenDocument, FPDF_GetPageCount, "Validate range"
ConvertPageRange ==
    /\ cpc = "idle"
    /\ UNCHANGED nonConvVars
    /\ entry' = "ConvertPageRange"
    /\ \E startPage, endPage \in -1..MaxPages :
         /\ request' = [startPage |-> startPage, endPage |-> endPage]
         /\ \E openOk, countOk \in BOOLEAN, n \in 0..MaxPages :
              IF ~openOk
              THEN /\ result' = Returned(<<>>, Wrap(HostErr, "failed to open PDF document"))
                   /\ cpc' = "done"
                   /\ UNCHANGED <<handles, deferred, range, pageIndex>>
              ELSE IF ~countOk
              THEN /\ result' = Returned(<<>>, Wrap(HostErr, "failed to get page count"))
                   /\ cpc' = "done"
                   /\ handles' = Closed({DocHandle}, Opened(DocHandle, handles))
                   /\ UNCHANGED <<deferred, range, pageIndex>>
              ELSE LET r == ValidateRange(startPage, endPage, n)
                   IN  /\ range' = r
                       /\ IF RangeInvalid(r)
                          THEN /\ result' = Returned(<<>>,
                                      NewErr("invalid page range: start page must be <= end page"))
                               /\ cpc' = "done"
                               /\ handles' = Closed({DocHandle}, Opened(DocHandle, handles))
                               /\ UNCHANGED <<deferred, pageIndex>>
                          ELSE /\ handles' = Opened(DocHandle, handles)
                               /\ deferred' = [deferred EXCEPT !.Convert = {DocHandle}]
                               /\ pageIndex' = r.startPage
                               /\ cpc' = "loop"
                               /\ UNCHANGED result
    /\ UNCHANGED <<config, loadLog, cur, ret, document, faults>>

\* extractPage: FPDF_LoadPage for the loop's index i
FPDF_LoadPage ==
    /\ cpc = "loop"
    /\ UNCHANGED nonConvVars
    /\ pageIndex <= range.endPage
    /\ \E ok \in BOOLEAN :
         IF ok
         THEN /\ handles' = Opened(<<"page", pageIndex>>, handles)
              /\ loadLog' = Append(loadLog, pageIndex)
              /\ deferred' = [deferred EXCEPT !.extractPage = {<<"page", pageIndex>>}]
              /\ cur' = [Width |-> 0, Height |-> 0, Count |-> -1]
              /\ cpc' = "FPDF_GetPageWidthF"
              /\ UNCHANGED <<ret, faults>>
         ELSE /\ ret' = [page |-> NoPage, err |-> Wrap(HostErr, "failed to load page")]
              /\ faults' = faults \cup {pageIndex}
              /\ cpc' = "extractPage_return"
              /\ UNCHANGED <<handles, loadLog, deferred, cur>>
    /\ UNCHANGED <<entry, config, request, range, pageIndex, document, result>>

\* ExtractPage: FPDF_GetPageWidthF
FPDF_GetPageWidthF ==
    /\ cpc = "FPDF_GetPageWidthF"
    /\ UNCHANGED nonConvVars
    /\ \/ \E w \in PageWidths :
            /\ cur' = [cur EXCEPT !.Width = w]
            /\ cpc' = "FPDF_GetPageHeightF"
            /\ UNCHANGED <<ret, faults>>
       \/ /\ ret' = [page |-> NoPage, err |-> Wrap(HostErr, "failed to get page width")]
          /\ faults' = faults \cup {pageIndex}
          /\ cpc' = "ExtractPage_return"
          /\ UNCHANGED cur
    /\ UNCHANGED <<entry, config, request, range, pageIndex, handles, loadLog,
                   deferred, document, result>>

\* ExtractPage: FPDF_GetPageHeightF
FPDF_GetPageHeightF ==
    /\ cpc = "FPDF_GetPageHeightF"
    /\ UNCHANGED nonConvVars
    /\ \/ \E h \in PageHeights :
            /\ cur' = [cur EXCEPT !.Height = h]
            /\ cpc' = "FPDFText_LoadPage"
            /\ UNCHANGED <<ret, faults>>
       \/ /\ ret' = [page |-> NoPage, err |-> Wrap(HostErr, "failed to get page size")]
          /\ faults' = faults \cup {pageIndex}
          /\ cpc' = "ExtractPage_return"
          /\ UNCHANGED cur
    /\ UNCHANGED <<entry, config, request, range, pageIndex, handles, loadLog,
                   deferred, document, result>>

\* ExtractPage: FPDFText_LoadPage and its deferred FPDFText_ClosePage
FPDFText_LoadPage ==
    /\ cpc = "FPDFText_LoadPage"
    /\ UNCHANGED nonConvVars
    /\ \/ /\ handles' = Opened(<<"text", pageIndex>>, handles)
          /\ deferred' = [deferred EXCEPT !.ExtractPage = {<<"text", pageIndex>>}]
          /\ cpc' = "FPDFText_CountChars"
          /\ UNCHANGED <<ret, faults>>
       \/ /\ ret' = [page |-> NoPage, err |-> Wrap(HostErr, "failed to load text page")]
          /\ faults' = faults \cup {pageIndex}
          /\ cpc' = "ExtractPage_return"
          /\ UNCHANGED <<handles, deferred>>
    /\ UNCHANGED <<entry, config, request, range, pageIndex, loadLog, cur,
                   document, result>>

\* ExtractPage from FPDFText_CountChars to its return statement
FPDFText_CountChars ==
    /\ cpc = "FPDFText_CountChars"
    /\ UNCHANGED nonConvVars
    /\ \/ \E content \in PageContents, linesOk \in BOOLEAN :
            /\ cur' = [cur EXCEPT !.Count = content.Count]
            /\ ret' = [page |-> ExtractPageBody(config, pageIndex + 1, cur, content, linesOk),
                       err |-> NoErr]
            /\ UNCHANGED faults
       \/ /\ ret' = [page |-> NoPage, err |-> Wrap(HostErr, "failed to count characters")]
          /\ faults' = faults \cup {pageIndex}
          /\ UNCHANGED cur
    /\ cpc' = "ExtractPage_return"
    /\ UNCHANGED <<entry, config, request, range, pageIndex, handles, loadLog,
                   deferred, document, result>>

\* ExtractPage returns: its defers run, extractPage wraps an error
ExtractPageReturn ==
    /\ cpc = "ExtractPage_return"
    /\ UNCHANGED nonConvVars
    /\ handles' = Closed(RunDeferred(deferred.ExtractPage, ret.err), handles)
    /\ deferred' = [deferred EXCEPT !.ExtractPage = {}]
    /\ ret' = IF ret.err # NoErr
              THEN [page |-> NoPage, err |-> Wrap(ret.err, "failed to extract page content")]
              ELSE ret
    /\ cpc' = "extractPage_return"
    /\ UNCHANGED <<entry, config, request, range, pageIndex, loadLog, cur,
                   document, result, faults>>

\* extractPage returns: its defers run, the page loop takes the result
extractPageReturn ==
    /\ cpc = "extractPage_return"
    /\ UNCHANGED nonConvVars
    /\ LET hs == Closed(RunDeferred(deferred.extractPage, ret.err), handles)
           step == LoopStep(ret, pageIndex, document)
       IN  /\ document' = step.document
           /\ pageIndex' = step.pageIndex
           /\ IF step.stop
              THEN ConvReturn(<<>>, step.err, hs,
                              [deferred EXCEPT !.extractPage = {}])
              ELSE /\ handles' = hs
                   /\ deferred' = [deferred EXCEPT !.extractPage = {}]
                   /\ cpc' = "loop"
                   /\ UNCHANGED result
    /\ UNCHANGED <<entry, config, request, range, loadLog, cur, ret, faults>>

\* the page loop ends: document.ToMarkdown(c.config)
LoopExit ==
    /\ cpc = "loop"
    /\ UNCHANGED nonConvVars
    /\ pageIndex > range.endPage
    /\ document' = normalizeDocumentHeadings(document)
    /\ ConvReturn(ToMarkdown(document, config), NoErr, handles, deferred)
    /\ UNCHANGED <<entry, config, request, range, pageIndex, loadLog, cur, ret, faults>>

\* Documents a caller may hand to Document.ToMarkdown directly
UserPages ==
    {ExtractPageBody([IncludePageBreaks |-> TRUE, DetectTables |-> TRUE,
                      UseSegmentBasedTables |-> TRUE],
                     1, [Width |-> 612, Height |-> 792], content, TRUE) :
        content \in PageContents}
UserDocuments == UNION {[1..n -> UserPages] : n \in 0..MaxPages}

\* Document.ToMarkdown called on a caller's Document
DocumentToMarkdown ==
    /\ cpc = "idle"
    /\ UNCHANGED nonConvVars
    /\ entry' = "ToMarkdown"
    /\ \E doc \in UserDocuments :
         /\ document' = normalizeDocumentHeadings(doc)
         /\ result' = Returned(ToMarkdown(doc, config), NoErr)
    /\ cpc' = "done"
    /\ UNCHANGED <<config, request, range, pageIndex, handles, loadLog, deferred,
                   cur, ret, faults>>

ConvNext ==
    \/ ConvertFile
    \/ ConvertPageRange
    \/ FPDF_LoadPage
    \/ FPDF_GetPageWidthF
    \/ FPDF_GetPageHeightF
    \/ FPDFText_LoadPage
    \/ FPDFText_CountChars
    \/ ExtractPageReturn
    \/ extractPageReturn
    \/ LoopExit
    \/ DocumentToMarkdown

Init == ConvInit /\ OtherIdle
Next == ConvNext
Spec == Init /\ [][Next]_vars

(***************************************************************************)
(* Claims about the converter.                                             *)
(***************************************************************************)
InExtractPage ==
    cpc \in {"FPDF_GetPageWidthF", "FPDF_GetPageHeightF", "FPDFText_LoadPage",
             "FPDFText_CountChars", "ExtractPage_return"}
InextractPage == InExtractPage \/ cpc = "extractPage_return"

\* C1: every page handle and every text-page handle that was loaded is closed
\* exactly once by the time the function that loaded it has returned (never
\* more than once before), on the success path and on every error path.
C1_HandlesClosedOnce ==
    \A h \in DOMAIN handles :
        /\ handles[h] <= 1
        /\ h[1] = "text" /\ ~(InExtractPage /\ h[2] = pageIndex) => handles[h] = 1
        /\ h[1] = "page" /\ ~(InextractPage /\ h[2] = pageIndex) => handles[h] = 1

\* C1 witness: ExtractPage has returned the count-characters failure and the
\* text page it loaded has been closed
C1_Witness ==
    /\ cpc = "extractPage_return"
    /\ ret.err.cause = "failed to count characters"
    /\ <<"text", pageIndex>> \in DOMAIN handles
    /\ handles[<<"text", pageIndex>>] = 1

\* C2: once the extraction of page index i has failed and control is back in
\* the page loop, the call has returned the empty string with an error naming
\* page i + 1, and no page with a higher index has been loaded.
C2_PageFailureAborts ==
    \A i \in faults :
        cpc \in {"loop", "done"} =>
            /\ result.done
            /\ result.markdown = <<>>
            /\ result.err.msg = "failed to extract page"
            /\ result.err.page = i + 1
            /\ \A k \in DOMAIN loadLog : loadLog[k] <= i

\* C2 witness: a call that failed on a page after extracting earlier pages
C2_Witness ==
    /\ result.done
    /\ faults # {}
    /\ Len(document) >= 1
    /\ result.markdown = <<>>

RangeError == "invalid page range: start page must be <= end page"
HostFailed == result.err.msg \in {"failed to open PDF document", "failed to get page count"}

\* C4 as claimed (read for calls whose document opened, whose page count was
\* read and in which no page failed): ConvertPageRange returns the configuration error and no Markdown
\* whenever the requested start page is greater than the requested end page.
C4_Original ==
    (entry = "ConvertPageRange" /\ result.done /\ ~HostFailed /\ faults = {}
        /\ request.startPage > request.endPage)
    => (result.err.msg = RangeError /\ result.markdown = <<>>)

\* C4 amended: ConvertPageRange returns the configuration error, no Markdown,
\* and loads no page, whenever the document opened, its page count n was read
\* and start' > end', where start' is the requested start (0 if negative) and
\* end' the requested end (n - 1 if negative or >= n).
C4_ClampedRangeError ==
    LET n == range.pageCount
        s == IF request.startPage < 0 THEN 0 ELSE request.startPage
        e == IF request.endPage < 0 \/ request.endPage >= n THEN n - 1
             ELSE request.endPage
    IN  (entry = "ConvertPageRange" /\ cpc # "idle" /\ ~HostFailed /\ s > e)
        => /\ result.done
           /\ result.err.msg = RangeError
           /\ result.markdown = <<>>
           /\ loadLog = <<>>

\* C4 witness: a rejected request with start > end >= 0
C4_Witness ==
    /\ entry = "ConvertPageRange"
    /\ result.done
    /\ result.err.msg = RangeError
    /\ request.startPage > request.endPage
    /\ request.endPage >= 0

\* C5: when the text layer reports zero characters ExtractPage returns no
\* error and a Page with the given page number, the page's width and height,
\* no paragraphs and no tables.
C5_EmptyPage ==
    (cpc = "ExtractPage_return" /\ cur.Count = 0)
    => /\ ret.err = NoErr
       /\ ret.page.Number = pageIndex + 1
       /\ ret.page.Width = cur.Width /\ cur.Width \in PageWidths
       /\ ret.page.Height = cur.Height /\ cur.Height \in PageHeights
       /\ ret.page.Paragraphs = <<>>
       /\ ret.page.Tables = <<>>

\* C5 witness: an empty page that is not the first page of the document
C5_Witness ==
    /\ cpc = "ExtractPage_return"
    /\ cur.Count = 0
    /\ pageIndex >= 1

HasTableToken(md) == \E k \in DOMAIN md : md[k].k = "Table"

\* C6: with Config.DetectTables false every Page ExtractPage returns has no
\* tables, whatever UseSegmentBasedTables is and whatever ruling lines the
\* page has, and ToMarkdown renders no table, also for a Document whose
\* Pages carry tables.
C6_NoTablesWhenDisabled ==
    ~config.DetectTables =>
        /\ entry # "ToMarkdown" =>
              /\ ret.page.Tables = <<>>
              /\ \A i \in DOMAIN document : document[i].Tables = <<>>
        /\ ~HasTableToken(result.markdown)

\* C6 witness: ToMarkdown has rendered, with DetectTables false, a Document
\* one of whose Pages carries tables
C6_Witness ==
    /\ ~config.DetectTables
    /\ entry = "ToMarkdown"
    /\ result.done
    /\ \E i \in DOMAIN document : Len(document[i].Tables) > 0
    /\ Len(result.markdown) > 0

\* the places of the horizontal rules in a Markdown
RulePlaces(md) == {k \in DOMAIN md : md[k] = HorizontalRule}

\* the number of builder calls pages 1..n make for their own content
RECURSIVE ContentLength(_, _, _)
ContentLength(doc, n, cfg) ==
    IF n = 0 THEN 0
    ELSE ContentLength(doc, n - 1, cfg) + Len(PageToTokens(doc[n], 1, cfg))

\* C16: Document.ToMarkdown emits a horizontal rule exactly once between each
\* pair of consecutive pages (none before the first page and none after the
\* last) when IncludePageBreaks is true, and no page separator at all when
\* it is false.
C16_RuleBetweenPages ==
    (result.done /\ result.err = NoErr) =>
        IF config.IncludePageBreaks
        THEN RulePlaces(result.markdown) =
                {ContentLength(document, n, config) + 2 * (n - 1) + 1 :
                    n \in 1..(Len(document) - 1)}
        ELSE RulePlaces(result.markdown) = {}

\* two pages with content rendered with one rule between them
C16_Witness ==
    /\ result.done /\ result.err = NoErr
    /\ config.IncludePageBreaks
    /\ Len(document) = 2
    /\ Len(document[1].Paragraphs) > 0 /\ Len(document[2].Paragraphs) > 0
    /\ Cardinality(RulePlaces(result.markdown)) = 1
    /\ \E k \in RulePlaces(result.markdown) : 1 < k /\ k + 1 < Len(result.markdown)

(***************************************************************************)
(* extractEnrichedChars (extract.go): one EnrichedChar per usable glyph.   *)
(***************************************************************************)
MaxGlyphs == 3

\* the per-glyph host queries, in the order the loop body makes them
Queries == {"GetUnicode", "GetCharBox", "GetFontSize", "GetFontWeight",
            "GetFontInfo", "GetFillColor", "GetCharAngle", "IsHyphen"}

\* the sets of queries the host fails for one glyph: none, each one alone, and
\* every style query at once
FailSets == {{}} \cup {{q} : q \in Queries}
                 \cup {Queries \ {"GetUnicode", "GetCharBox"}}

\* the values the loop body falls back on
DefaultFontSize == 12
DefaultFontWeight == 400
DefaultFillColor == [R |-> 0, G |-> 0, B |-> 0, A |-> 255]

\* the bottom edge of glyph i in PDF coordinates: the first glyph lies inside
\* the page, the second sticks out above its top edge (792), the third below
\* its bottom edge, the others inside
HostBottom(i) == IF i = 1 THEN 788 ELSE IF i = 2 THEN 0 - 4 ELSE 690 - 20 * i

\* what the host holds for glyph i: unicode u (0: no scalar), a box in PDF
\* coordinates (origin bottom-left) and a style that differs from every default
HostGlyph(i, u, fails) ==
    [Unicode |-> u,
     Left |-> 72 + 10 * i, Right |-> 80 + 10 * i,
     Top |-> HostBottom(i) + 10, Bottom |-> HostBottom(i),
     FontSize |-> 24, FontWeight |-> 700, FontName |-> "Courier-Bold", Flags |-> 1,
     Fill |-> [R |-> 255, G |-> 0, B |-> 0, A |-> 128],
     CharAngle |-> 90, IsHyphen |-> TRUE,
     fails |-> fails]

HostUnicodes == {0, 65}

\* as the claim C3 would have it: any failing query drops the glyph
extractEnrichedChar_DropOnAnyError(g, pageHeight) ==
    IF g.fails # {} \/ g.Unicode = 0
    THEN <<>>
    ELSE << [Text |-> g.Unicode,
             Box |-> [X0 |-> g.Left, Y0 |-> pageHeight - g.Top,
                      X1 |-> g.Right, Y1 |-> pageHeight - g.Bottom],
             FontSize |-> g.FontSize, FontWeight |-> g.FontWeight,
             FontName |-> g.FontName, FontFlags |-> g.Flags,
             FillColor |-> g.Fill, Angle |-> g.CharAngle, IsHyphen |-> g.IsHyphen] >>

\* a variant: the box is taken over in PDF coordinates, not flipped
extractEnrichedChar_NoFlip(g, pageHeight) ==
    IF "GetUnicode" \in g.fails \/ g.Unicode = 0
    THEN <<>>
    ELSE IF "GetCharBox" \in g.fails
    THEN <<>>
    ELSE << [Text |-> g.Unicode,
             Box |-> [X0 |-> g.Left, Y0 |-> g.Top, X1 |-> g.Right, Y1 |-> g.Bottom],
             FontSize |-> IF "GetFontSize" \in g.fails THEN DefaultFontSize ELSE g.FontSize,
             FontWeight |-> IF "GetFontWeight" \in g.fails
                            THEN DefaultFontWeight ELSE g.FontWeight,
             FontName |-> IF "GetFontInfo" \in g.fails THEN "" ELSE g.FontName,
             FontFlags |-> IF "GetFontInfo" \in g.fails THEN 0 ELSE g.Flags,
             FillColor |-> IF "GetFillColor" \in g.fails THEN DefaultFillColor ELSE g.Fill,
             Angle |-> IF "GetCharAngle" \in g.fails THEN 0 ELSE g.CharAngle,
             IsHyphen |-> IF "IsHyphen" \in g.fails THEN FALSE ELSE g.IsHyphen] >>

\* the body of the loop for one glyph: <<>> on "continue", else the char appended
extractEnrichedChar(g, pageHeight) ==
    IF "GetUnicode" \in g.fails \/ g.Unicode = 0
    THEN <<>>
    ELSE IF "GetCharBox" \in g.fails
    THEN <<>>
    ELSE << [Text |-> g.Unicode,
             Box |-> [X0 |-> g.Left, Y0 |-> pageHeight - g.Top,
                      X1 |-> g.Right, Y1 |-> pageHeight - g.Bottom],
             FontSize |-> IF "GetFontSize" \in g.fails THEN DefaultFontSize ELSE g.FontSize,
             FontWeight |-> IF "GetFontWeight" \in g.fails
                            THEN DefaultFontWeight ELSE g.FontWeight,
             FontName |-> IF "GetFontInfo" \in g.fails THEN "" ELSE g.FontName,
             FontFlags |-> IF "GetFontInfo" \in g.fails THEN 0 ELSE g.Flags,
             FillColor |-> IF "GetFillColor" \in g.fails THEN DefaultFillColor ELSE g.Fill,
             Angle |-> IF "GetCharAngle" \in g.fails THEN 0 ELSE g.CharAngle,
             IsHyphen |-> IF "IsHyphen" \in g.fails THEN FALSE ELSE g.IsHyphen] >>

\* extractEnrichedChars is called with the page's character count
extractEnrichedChars ==
    /\ ingPc = "idle"
    /\ \E n \in 0..MaxGlyphs, h \in PageHeights :
         /\ ingCount' = n
         /\ ingPageHeight' = h
    /\ ingIndex' = 0
    /\ chars' = <<>>
    /\ charSrc' = <<>>
    /\ hostLog' = <<>>
    /\ ingPc' = "loop"
    /\ UNCHANGED ingErr
    /\ UNCHANGED nonIngestVars

\* one iteration of "for i := range count"
extractEnrichedCharsLoop ==
    /\ ingPc = "loop"
    /\ ingIndex < ingCount
    /\ \E u \in HostUnicodes, fails \in FailSets :
         LET g == HostGlyph(ingIndex, u, fails)
             c == extractEnrichedChar(g, ingPageHeight)
         IN  /\ hostLog' = Append(hostLog, g)
             /\ chars' = chars \o c
             /\ charSrc' = IF c = <<>> THEN charSrc ELSE Append(charSrc, ingIndex)
    /\ ingIndex' = ingIndex + 1
    /\ UNCHANGED <<ingPc, ingCount, ingPageHeight, ingErr>>
    /\ UNCHANGED nonIngestVars

\* "return chars, nil"
extractEnrichedCharsReturn ==
    /\ ingPc = "loop"
    /\ ingIndex >= ingCount
    /\ ingErr' = NoErr
    /\ ingPc' = "done"
    /\ UNCHANGED <<ingCount, ingPageHeight, ingIndex, hostLog, chars, charSrc>>
    /\ UNCHANGED nonIngestVars

IngestNext ==
    \/ extractEnrichedChars
    \/ extractEnrichedCharsLoop
    \/ extractEnrichedCharsReturn

IngestInit == ConvInit /\ config = DefaultConfig /\ OtherIdle

SpecIngest == IngestInit /\ [][IngestNext]_vars

\* the chars made from glyph j
CharsOf(j) == {k \in DOMAIN chars : charSrc[k] = j}

\* C3 as claimed: a glyph for which any host query failed has no char in the
\* output, and the function returns no error.
C3_Original ==
    ingPc = "done" =>
        /\ ingErr = NoErr
        /\ \A j \in DOMAIN hostLog : hostLog[j].fails # {} => CharsOf(j - 1) = {}

\* C3, amended: extractEnrichedChars never returns an error; a glyph has no
\* char exactly when its unicode query fails or yields 0 or its box query
\* fails; a failure of any other query keeps the glyph, with the default in
\* the place of the answer (size 12, weight 400, name "", flags 0, opaque
\* black, angle 0, not a hyphen); every kept glyph has exactly one char, in
\* glyph order, and carries its own unicode and converted box whatever
\* happened to the other glyphs.
C3_OnlyUnicodeOrBoxFailureDrops ==
    /\ ingPc = "done" => ingErr = NoErr
    /\ Len(charSrc) = Len(chars)
    /\ \A k \in DOMAIN charSrc : k > 1 => charSrc[k - 1] < charSrc[k]
    /\ \A j \in DOMAIN hostLog :
         LET g == hostLog[j]
             dropped == "GetUnicode" \in g.fails \/ g.Unicode = 0 \/ "GetCharBox" \in g.fails
         IN  IF dropped
             THEN CharsOf(j - 1) = {}
             ELSE /\ Cardinality(CharsOf(j - 1)) = 1
                  /\ \A k \in CharsOf(j - 1) :
                       /\ chars[k].Text = g.Unicode
                       /\ chars[k].Box.X0 = g.Left /\ chars[k].Box.X1 = g.Right
                       /\ chars[k].Box.Y0 + g.Top = ingPageHeight
                       /\ chars[k].Box.Y1 + g.Bottom = ingPageHeight
                       /\ chars[k].FontSize = (IF "GetFontSize" \in g.fails THEN 12 ELSE g.FontSize)
                       /\ chars[k].FontWeight = (IF "GetFontWeight" \in g.fails THEN 400 ELSE g.FontWeight)
                       /\ chars[k].FontName = (IF "GetFontInfo" \in g.fails THEN "" ELSE g.FontName)
                       /\ chars[k].FontFlags = (IF "GetFontInfo" \in g.fails THEN 0 ELSE g.Flags)
                       /\ chars[k].FillColor = (IF "GetFillColor" \in g.fails
                                                THEN [R |-> 0, G |-> 0, B |-> 0, A |-> 255]
                                                ELSE g.Fill)
                       /\ chars[k].Angle = (IF "GetCharAngle" \in g.fails THEN 0 ELSE g.CharAngle)
                       /\ chars[k].IsHyphen = (IF "IsHyphen" \in g.fails THEN FALSE ELSE g.IsHyphen)

\* a finished run over three glyphs: the box query failed for the first (no
\* char), the font-size query for the second (kept, size 12), none for the third
C3_Witness ==
    /\ ingPc = "done"
    /\ Len(hostLog) = 3
    /\ hostLog[1].fails = {"GetCharBox"} /\ hostLog[1].Unicode # 0
    /\ hostLog[2].fails = {"GetFontSize"} /\ hostLog[2].Unicode # 0
    /\ hostLog[3].fails = {} /\ hostLog[3].Unicode # 0
    /\ charSrc = <<1, 2>>
    /\ chars[1].FontSize = 12
    /\ chars[2].FontSize = 24

\* C15 as claimed: for a page whose MediaBox origin is (0,0), every character
\* returned by ingest has a Rect with 0 <= y0 <= y1 <= pageHeight.
C15_Original ==
    \A k \in DOMAIN chars :
        /\ 0 <= chars[k].Box.Y0
        /\ chars[k].Box.Y0 <= chars[k].Box.Y1
        /\ chars[k].Box.Y1 <= ingPageHeight

\* C15, amended: every character whose glyph box, as the host reports it,
\* lies inside the page (0 <= bottom <= top <= pageHeight) has a Rect with
\* 0 <= y0 <= y1 <= pageHeight; for every character y0 = pageHeight - top and
\* y1 = pageHeight - bottom, so y0 <= y1 whenever bottom <= top.
C15_InsidePageStaysInside ==
    \A k \in DOMAIN chars :
        LET g == hostLog[charSrc[k] + 1]
        IN  /\ (0 <= g.Bottom /\ g.Bottom <= g.Top /\ g.Top <= ingPageHeight) =>
                   /\ 0 <= chars[k].Box.Y0
                   /\ chars[k].Box.Y0 <= chars[k].Box.Y1
                   /\ chars[k].Box.Y1 <= ingPageHeight
            /\ g.Bottom <= g.Top => chars[k].Box.Y0 <= chars[k].Box.Y1

\* a finished run that kept a glyph inside the page and one that sticks out
C15_Witness ==
    /\ ingPc = "done"
    /\ \E k \in DOMAIN chars :
          LET g == hostLog[charSrc[k] + 1]
          IN  0 <= g.Bottom /\ g.Top <= ingPageHeight /\ chars[k].Box.Y0 = ingPageHeight - g.Top
    /\ \E k \in DOMAIN chars : chars[k].Box.Y0 < 0

(***************************************************************************)
(* aggregateWord (extract.go).  Go iterates a map in an order that differs *)
(* from one run to the next; the two "range" loops over weightCounts and   *)
(* fontCounts are therefore run over an arbitrary order of the keys.       *)
(***************************************************************************)
MaxChars == 3

\* the glyph styles a word's chars are drawn from
WordCharStyles ==
    {[Text |-> 97, FontSize |-> 12, FontWeight |-> w, FontName |-> f,
      FontFlags |-> 0, FillColor |-> DefaultFillColor, Angle |-> 0] :
        w \in {400, 700}, f \in {"Helvetica", "Helvetica-Bold"}}

\* the box groupCharsIntoWords has accumulated for n chars
WordBoxOf(n) == [X0 |-> 72, Y0 |-> 100, X1 |-> 72 + 6 * n, Y1 |-> 112]

\* the orders in which "for k := range m" may visit the keys K
MapOrders(K) ==
    {o \in [1..Cardinality(K) -> K] : \A k \in K : \E i \in DOMAIN o : o[i] = k}

RECURSIVE SumOver(_, _)
SumOver(seq, field) ==
    IF seq = <<>> THEN 0 ELSE Head(seq)[field] + SumOver(Tail(seq), field)

\* counts[k] of "counts[char.field]++"
CountOf(seq, field, k) == Cardinality({i \in DOMAIN seq : seq[i][field] = k})

\* "for key, count := range counts { if count > maxCount { dominant = key; maxCount = count } }"
RECURSIVE DominantFrom(_, _, _, _, _, _)
DominantFrom(order, i, seq, field, dominant, maxCount) ==
    IF i > Len(order) THEN dominant
    ELSE LET count == CountOf(seq, field, order[i])
         IN  IF count > maxCount
             THEN DominantFrom(order, i + 1, seq, field, order[i], count)
             ELSE DominantFrom(order, i + 1, seq, field, dominant, maxCount)

\* word.Text has a rune in 'a'..'z'
HasLowercase(text) == \E i \in DOMAIN text : text[i] >= 97 /\ text[i] <= 122

\* aggregateWord for non-empty chars, the maps visited in weightOrder and
\* fontOrder.  Averages are kept as fractions [num, den]:
\*   FontSize = totalFontSize / len(chars)
\*   Rotation = (totalAngle / len(chars)) * 180 / 3.14159
\*   Baseline = Box.Y1 - FontSize * 0.15
\*   XHeight  = Box.Height() * 0.7, or FontSize * 0.5 without a lowercase rune
aggregateWord(cs, box, weightOrder, fontOrder) ==
    LET n == Len(cs)
        text == [i \in 1..n |-> cs[i].Text]
        totalFontSize == SumOver(cs, "FontSize")
        dominantWeight == DominantFrom(weightOrder, 1, cs, "FontWeight", 0, 0)
        dominantFont == DominantFrom(fontOrder, 1, cs, "FontName", "", 0)
        fontFlags == cs[1].FontFlags
    IN  [Text |-> text,
         Box |-> box,
         FontSize |-> [num |-> totalFontSize, den |-> n],
         FontWeight |-> dominantWeight,
         FontName |-> dominantFont,
         FontFlags |-> fontFlags,
         FillColor |-> cs[1].FillColor,
         IsBold |-> dominantWeight >= 700,
         IsItalic |-> (fontFlags \div 64) % 2 = 1,
         IsMonospace |-> fontFlags % 2 = 1,
         Rotation |-> [num |-> SumOver(cs, "Angle") * 180 * 100000, den |-> n * 314159],
         Baseline |-> [num |-> 100 * n * box.Y1 - 15 * totalFontSize, den |-> 100 * n],
         XHeight |-> IF HasLowercase(text)
                     THEN [num |-> 7 * (box.Y1 - box.Y0), den |-> 10]
                     ELSE [num |-> 5 * totalFontSize, den |-> 10 * n]]

\* groupCharsIntoWords: "currentWord = append(currentWord, char)"
AppendChar ==
    /\ Len(wordChars) < MaxChars
    /\ \A r \in Runs : wordOut[r] = NoWord
    /\ \E c \in WordCharStyles : wordChars' = Append(wordChars, c)
    /\ UNCHANGED wordOut
    /\ UNCHANGED nonAggVars

\* groupCharsIntoWords: "words = append(words, aggregateWord(currentWord, wordBox))"
\* in run r
CallAggregateWord ==
    /\ Len(wordChars) > 0
    /\ \E r \in Runs :
         /\ wordOut[r] = NoWord
         /\ \E weightOrder \in MapOrders({wordChars[i].FontWeight : i \in DOMAIN wordChars}),
               fontOrder \in MapOrders({wordChars[i].FontName : i \in DOMAIN wordChars}) :
              wordOut' = [wordOut EXCEPT ![r] =
                            aggregateWord(wordChars, WordBoxOf(Len(wordChars)),
                                          weightOrder, fontOrder)]
    /\ UNCHANGED wordChars
    /\ UNCHANGED nonAggVars

AggNext ==
    \/ AppendChar
    \/ CallAggregateWord

AggInit == ConvInit /\ config = DefaultConfig /\ OtherIdle

SpecAggregate == AggInit /\ [][AggNext]_vars

\* C7: two runs over the same glyphs give the same word (the same Page) and
\* the same inline Markdown for it, whatever order the maps were visited in.
C7_Deterministic ==
    \A r1, r2 \in Runs :
        (wordOut[r1] # NoWord /\ wordOut[r2] # NoWord) =>
            /\ wordOut[r1] = wordOut[r2]
            /\ applyInlineFormatting(wordOut[r1]) = applyInlineFormatting(wordOut[r2])

(***************************************************************************)
(* buildParagraphs (structure.go) up to the lines of its text blocks:      *)
(* detectTextRotation, the three line groupers and mergeCloseWords.        *)
(* A word's Baseline is kept in hundredths of a point and its XHeight in   *)
(* tenths, so that Y1 - 0.15 * FontSize, 0.7 * Height and 0.5 * FontSize   *)
(* are integers; thresholds are scaled to match.                           *)
(***************************************************************************)
MaxWords == 5

\* an EnrichedWord as aggregateWord returns it: rotation in whole degrees
LineWord(text, x0, y0, x1, y1, fontSize, rotation) ==
    [Text |-> text,
     Box |-> [X0 |-> x0, Y0 |-> y0, X1 |-> x1, Y1 |-> y1],
     FontSize |-> fontSize,
     Rotation |-> rotation,
     Baseline |-> 100 * y1 - 15 * fontSize,
     XHeight |-> IF HasLowercase(text) THEN 7 * (y1 - y0) ELSE 5 * fontSize]

\* the words a page is made of: "A." and "C" on one baseline with "d" set four
\* points lower at the left margin, and two narrow words of a rotated column
WordPool ==
    { LineWord(<<65>>, 50, 80, 60, 104, 24, 0),
      LineWord(<<46>>, 60, 100, 62, 104, 24, 0),
      LineWord(<<67>>, 100, 80, 110, 104, 24, 0),
      LineWord(<<100>>, 0, 84, 5, 108, 24, 0),
      LineWord(<<86>>, 200, 100, 202, 150, 12, 90),
      LineWord(<<87>>, 204, 50, 206, 90, 12, 90) }

mergeRects(r1, r2) ==
    [X0 |-> Min2(r1.X0, r2.X0), Y0 |-> Min2(r1.Y0, r2.Y0),
     X1 |-> Max2(r1.X1, r2.X1), Y1 |-> Max2(r1.Y1, r2.Y1)]

\* twice Rect.CenterX()
CenterX2(r) == r.X0 + r.X1
\* twice Rect.CenterY()
CenterY2(r) == r.Y0 + r.Y1
Height(r) == r.Y1 - r.Y0

normalizeAngle(angle) == angle % 360

\* math.Round(angle / step) * step for a non-negative angle
quantizeAngle(angle, step) == ((2 * angle + step) \div (2 * step)) * step

inferReadingDirection(angle) ==
    LET a == normalizeAngle(angle)
    IN  IF a < 45 \/ a >= 315 THEN "ltr"
        ELSE IF a >= 45 /\ a < 135 THEN "ttb"
        ELSE IF a >= 135 /\ a < 225 THEN "rtl"
        ELSE "btt"

\* the "less" closures handed to sort.Slice, by the place that sorts:
\*   "count"      detectTextRotation: count descending
\*   "baseline"   buildParagraphs: baselines within 3 -> X0, else baseline
\*   "horizontal" groupWordsIntoHorizontalLines: Y-overlap above 0.3 of the
\*                smaller height -> X0, else Y0
\*   "vertical"   groupWordsIntoVerticalLines: centres within 3 -> Y0, else centre
\*   "paraY0"     determineReadingOrder: paragraphs by Box.Y0
\*   "colX0"      determineReadingOrder: columns by Box.X0
\*   "float64"    sort.Float64s: ascending
\*   "rowY0"      buildRowsFromBlocks: rows by Box.Y0
\*   "cell"       buildCellsFromRowsAndColumns: Y0 within 3 -> X0, else Y0
Less(mode, a, b) ==
    CASE mode = "count" -> a.count > b.count
      [] mode = "baseline" ->
            IF Abs(a.Baseline - b.Baseline) < 300
            THEN a.Box.X0 < b.Box.X0
            ELSE a.Baseline < b.Baseline
      [] mode = "horizontal" ->
            LET overlapHeight == Min2(a.Box.Y1, b.Box.Y1) - Max2(a.Box.Y0, b.Box.Y0)
                minHeight == Min2(Height(a.Box), Height(b.Box))
            IN  IF 10 * overlapHeight > 3 * minHeight
                THEN a.Box.X0 < b.Box.X0
                ELSE a.Box.Y0 < b.Box.Y0
      [] mode = "vertical" ->
            IF Abs(CenterX2(a.Box) - CenterX2(b.Box)) < 6
            THEN a.Box.Y0 < b.Box.Y0
            ELSE CenterX2(a.Box) < CenterX2(b.Box)
      [] mode = "paraY0" -> a.Box.Y0 < b.Box.Y0
      [] mode = "colX0" -> a.Box.X0 < b.Box.X0
      [] mode = "float64" -> a < b
      [] mode = "rowY0" -> a.Box.Y0 < b.Box.Y0
      [] mode = "cell" ->
            IF Abs(a.Box.Y0 - b.Box.Y0) < 3
            THEN a.Box.X0 < b.Box.X0
            ELSE a.Box.Y0 < b.Box.Y0
      [] mode = "clusterSize" -> Len(a.words) > Len(b.words)
      [] mode = "bboxX0" -> a.x0 < b.x0
      [] mode = "X0" -> a.X0 < b.X0
      [] mode = "Top" -> a.Top < b.Top
      [] mode = "point" -> IF a.Y = b.Y THEN a.X < b.X ELSE a.Y < b.Y
      [] mode = "rowTop" -> a.top < b.top
      [] mode = "cellWord" ->
            IF Abs(a.Box.Y0 - b.Box.Y0) < 2
            THEN a.Box.X0 < b.Box.X0
            ELSE a.Box.Y0 < b.Box.Y0

\* sort.Slice on at most 12 elements is insertionSortLessFunc:
\*   for i := a + 1; i < b; i++ {
\*       for j := i; j > a && less(j, j-1); j-- { swap(j, j-1) } }
RECURSIVE SiftDown(_, _, _)
SiftDown(data, j, mode) ==
    IF j > 1 /\ Less(mode, data[j], data[j - 1])
    THEN SiftDown([data EXCEPT ![j] = data[j - 1], ![j - 1] = data[j]], j - 1, mode)
    ELSE data

RECURSIVE InsertionSortFrom(_, _, _)
InsertionSortFrom(data, i, mode) ==
    IF i > Len(data) THEN data
    ELSE InsertionSortFrom(SiftDown(data, i, mode), i + 1, mode)

SortSlice(data, mode) == InsertionSortFrom(data, 2, mode)

\* the accumulator of a line grouper: currentLine, lineBox, the sum of the
\* baselines of currentLine (the running mean "baseline" is sum / n), the
\* xHeight and centerX taken from the line's first word
StartLine(word) ==
    [Words |-> <<word>>, Box |-> word.Box, sum |-> word.Baseline, n |-> 1,
     xHeight |-> word.XHeight, centerX2 |-> CenterX2(word.Box)]

NoLine == [Words |-> <<>>]

\* the test that puts word on the current line
SameLine(mode, acc, word) ==
    LET baselineDiffN == Abs(acc.n * word.Baseline - acc.sum)
    IN  CASE mode = "baseline" ->
                \* baselineDiff < 0.4 * xHeight, or < 3.0 when that is 0
                IF acc.xHeight = 0 THEN baselineDiffN < 300 * acc.n
                ELSE baselineDiffN < 4 * acc.xHeight * acc.n
          [] mode = "horizontal" ->
                \* centerDistance < avgHeight, or baselineDiff < 0.6 * xHeight (5.0)
                \/ Abs(CenterY2(word.Box) - CenterY2(acc.Box))
                       < Height(acc.Box) + Height(word.Box)
                \/ IF acc.xHeight = 0 THEN baselineDiffN < 500 * acc.n
                   ELSE baselineDiffN < 6 * acc.xHeight * acc.n
          [] mode = "vertical" ->
                \* |wordCenterX - centerX| < word.FontSize * 0.8
                10 * Abs(CenterX2(word.Box) - acc.centerX2) < 16 * word.FontSize

ExtendLine(mode, acc, word) ==
    [acc EXCEPT !.Words = Append(acc.Words, word),
                !.Box = mergeRects(acc.Box, word.Box),
                !.sum = IF mode = "vertical" THEN acc.sum ELSE acc.sum + word.Baseline,
                !.n = acc.n + 1]

\* Line{Words, Box, Baseline}: the baseline as a fraction of a point
CloseLine(mode, acc) ==
    [Words |-> acc.Words, Box |-> acc.Box,
     Baseline |-> IF mode = "vertical" THEN [num |-> acc.centerX2, den |-> 2]
                  ELSE [num |-> acc.sum, den |-> 100 * acc.n]]

RECURSIVE GroupFrom(_, _, _, _, _)
GroupFrom(mode, words, i, lines, acc) ==
    IF i > Len(words)
    THEN IF acc = NoLine THEN lines ELSE Append(lines, CloseLine(mode, acc))
    ELSE IF acc = NoLine
    THEN GroupFrom(mode, words, i + 1, lines, StartLine(words[i]))
    ELSE IF SameLine(mode, acc, words[i])
    THEN GroupFrom(mode, words, i + 1, lines, ExtendLine(mode, acc, words[i]))
    ELSE GroupFrom(mode, words, i + 1, Append(lines, CloseLine(mode, acc)),
                   StartLine(words[i]))

groupWordsIntoLinesBaseline(words) == GroupFrom("baseline", words, 1, <<>>, NoLine)

groupWordsIntoHorizontalLines(words) ==
    GroupFrom("horizontal", SortSlice(words, "horizontal"), 1, <<>>, NoLine)

groupWordsIntoVerticalLines(words) ==
    GroupFrom("vertical", SortSlice(words, "vertical"), 1, <<>>, NoLine)

IsVertical(rotation) ==
    (rotation >= 45 /\ rotation < 135) \/ (rotation >= 225 /\ rotation < 315)

groupWordsIntoLinesWithRotation(words, rotation) ==
    IF IsVertical(rotation) THEN groupWordsIntoVerticalLines(words)
    ELSE groupWordsIntoHorizontalLines(words)

\* . , ; : ! ? - ( ) [ ] { }
PunctuationRunes == {46, 44, 59, 58, 33, 63, 45, 40, 41, 91, 93, 123, 125}

RECURSIVE UnionBoxes(_, _, _)
UnionBoxes(words, i, box) ==
    IF i > Len(words) THEN box
    ELSE UnionBoxes(words, i + 1, mergeRects(box, words[i].Box))

\* mergeWordGroup: the texts joined, the boxes united, the first word's style;
\* Baseline, XHeight and Rotation are left at their zero values
mergeWordGroup(words) ==
    IF Len(words) = 1 THEN words[1]
    ELSE [Text |-> ConcatAll([i \in DOMAIN words |-> words[i].Text]),
          Box |-> UnionBoxes(words, 2, words[1].Box),
          FontSize |-> words[1].FontSize,
          Rotation |-> 0, Baseline |-> 0, XHeight |-> 0]

RECURSIVE MergeFrom(_, _, _, _)
MergeFrom(words, i, merged, currentMerge) ==
    IF i > Len(words)
    THEN Append(merged, mergeWordGroup(currentMerge))
    ELSE LET word == words[i]
             prevWord == currentMerge[Len(currentMerge)]
             gap == word.Box.X0 - prevWord.Box.X1
             isPunctuation == Len(word.Text) = 1 /\ word.Text[1] \in PunctuationRunes
         IN  IF gap < 2 /\ ~isPunctuation
             THEN MergeFrom(words, i + 1, merged, Append(currentMerge, word))
             ELSE MergeFrom(words, i + 1, Append(merged, mergeWordGroup(currentMerge)),
                            <<word>>)

mergeCloseWords(words) ==
    IF Len(words) <= 1 THEN words ELSE MergeFrom(words, 2, <<>>, <<words[1]>>)

\* detectTextRotation, its histogram map visited in the order "order"
BucketOf(word) == quantizeAngle(normalizeAngle(word.Rotation), 15)

RECURSIVE SelectBucket(_, _)
SelectBucket(words, angle) ==
    IF words = <<>> THEN <<>>
    ELSE (IF BucketOf(Head(words)) = angle THEN <<Head(words)>> ELSE <<>>)
             \o SelectBucket(Tail(words), angle)

\* "for _, ac := range angles { if ac.count < threshold { break } ... }"
RECURSIVE BlocksFrom(_, _, _)
BlocksFrom(angles, i, threshold) ==
    IF i > Len(angles) THEN <<>>
    ELSE IF angles[i].count < threshold THEN <<>>
    ELSE <<[Words |-> angles[i].words,
            Lines |-> groupWordsIntoLinesWithRotation(angles[i].words, angles[i].angle),
            Rotation |-> angles[i].angle,
            ReadingDirection |-> inferReadingDirection(angles[i].angle)]>>
         \o BlocksFrom(angles, i + 1, threshold)

detectTextRotation(words, order) ==
    IF Len(words) = 0 THEN <<>>
    ELSE LET angles == [k \in DOMAIN order |->
                          LET wordsAtAngle == SelectBucket(words, order[k])
                          IN  [angle |-> order[k], count |-> Len(wordsAtAngle),
                               words |-> wordsAtAngle]]
             threshold == Max2(5, Len(words) \div 20)
         IN  BlocksFrom(SortSlice(angles, "count"), 1, threshold)

\* buildParagraphs through "Merge words that are too close together"
buildTextBlocks(words, order) ==
    LET detected == detectTextRotation(words, order)
        blocks == IF Len(detected) = 0
                  THEN LET sortedWords == SortSlice(words, "baseline")
                       IN  <<[Words |-> sortedWords,
                              Lines |-> groupWordsIntoLinesBaseline(sortedWords),
                              Rotation |-> 0,
                              ReadingDirection |-> "ltr"]>>
                  ELSE detected
    IN  [bi \in DOMAIN blocks |->
            [blocks[bi] EXCEPT !.Lines =
                [li \in DOMAIN blocks[bi].Lines |->
                    [blocks[bi].Lines[li] EXCEPT !.Words = mergeCloseWords(@)]]]]

\* the caller supplies the page's words
AddWord ==
    /\ linesPc = "input"
    /\ Len(pageWords) < MaxWords
    /\ \E w \in WordPool : pageWords' = Append(pageWords, w)
    /\ UNCHANGED <<textBlocks, linesPc>>
    /\ UNCHANGED nonLineVars

\* buildParagraphs(words, pageWidth, config)
buildParagraphs ==
    /\ linesPc = "input"
    /\ IF Len(pageWords) = 0
       THEN textBlocks' = <<>>
       ELSE \E order \in MapOrders({BucketOf(pageWords[i]) : i \in DOMAIN pageWords}) :
                textBlocks' = buildTextBlocks(pageWords, order)
    /\ linesPc' = "built"
    /\ UNCHANGED pageWords
    /\ UNCHANGED nonLineVars

LinesNext ==
    \/ AddWord
    \/ buildParagraphs

LinesInit == ConvInit /\ config = DefaultConfig /\ OtherIdle

SpecLines == LinesInit /\ [][LinesNext]_vars

\* C8: in every line built, each word starts left of the next (X0) in a
\* horizontal block and above the next (Y0) in a vertical block.
C8_WordsIncreaseAlongLine ==
    linesPc = "built" =>
        \A bi \in DOMAIN textBlocks :
            \A li \in DOMAIN textBlocks[bi].Lines :
                LET ws == textBlocks[bi].Lines[li].Words
                IN  \A k \in 1..(Len(ws) - 1) :
                        IF IsVertical(textBlocks[bi].Rotation)
                        THEN ws[k].Box.Y0 < ws[k + 1].Box.Y0
                        ELSE ws[k].Box.X0 < ws[k + 1].Box.X0

(***************************************************************************)
(* determineReadingOrder (columns.go), on columns shaped as detectColumns  *)
(* returns them: the ranges between successive valleys that hold a word.   *)
(***************************************************************************)
MaxParas == 4

OrderPageWidth == 612

\* the valleys findSignificantValleys may return for the page
ValleyLayouts == {<<>>, <<306>>, <<200, 400>>}

\* detectColumns after the valleys are known; occupied is the set of ranges
\* (numbered from 0) in which filterWordsByXRange finds a word
RECURSIVE ColumnsFrom(_, _, _, _, _)
ColumnsFrom(valleys, i, colStart, pageWidth, occupied) ==
    LET colEnd == IF i <= Len(valleys) THEN valleys[i] ELSE pageWidth
        column == IF (i - 1) \in occupied
                  THEN <<[Box |-> [X0 |-> colStart, Y0 |-> 0, X1 |-> colEnd, Y1 |-> 700],
                          Index |-> i - 1]>>
                  ELSE <<>>
    IN  IF i > Len(valleys) THEN column
        ELSE column \o ColumnsFrom(valleys, i + 1, colEnd, pageWidth, occupied)

detectColumns(valleys, pageWidth, occupied) ==
    IF Len(valleys) = 0
    THEN <<[Box |-> [X0 |-> 0, Y0 |-> 0, X1 |-> pageWidth, Y1 |-> 700], Index |-> 0]>>
    ELSE ColumnsFrom(valleys, 1, 0, pageWidth, occupied)

\* paragraphs of a page: three in the left third (two of them starting at the
\* same height), one in the middle and one at the right
OrderPara(text, x0, y0, x1, y1) ==
    [Text |-> text, Box |-> [X0 |-> x0, Y0 |-> y0, X1 |-> x1, Y1 |-> y1]]

ParaPool ==
    { OrderPara("L1", 50, 100, 150, 120),
      OrderPara("L2", 50, 50, 150, 70),
      OrderPara("L3", 60, 100, 140, 130),
      OrderPara("M1", 250, 100, 350, 120),
      OrderPara("R1", 450, 30, 550, 60) }

\* "paraCenter >= col.Box.X0 && paraCenter < col.Box.X1"
InColumn(para, col) ==
    CenterX2(para.Box) >= 2 * col.Box.X0 /\ CenterX2(para.Box) < 2 * col.Box.X1

RECURSIVE SelectInColumn(_, _)
SelectInColumn(paragraphs, col) ==
    IF paragraphs = <<>> THEN <<>>
    ELSE (IF InColumn(Head(paragraphs), col) THEN <<Head(paragraphs)>> ELSE <<>>)
             \o SelectInColumn(Tail(paragraphs), col)

\* determineReadingOrder without the sort inside each column
determineReadingOrder_ColumnsUnsorted(paragraphs, columns) ==
    IF Len(paragraphs) = 0 THEN paragraphs
    ELSE IF Len(columns) <= 1 THEN SortSlice(paragraphs, "paraY0")
    ELSE LET sortedCols == SortSlice(columns, "colX0")
         IN  ConcatAll([k \in DOMAIN sortedCols |->
                           SelectInColumn(paragraphs, sortedCols[k])])

determineReadingOrder(paragraphs, columns) ==
    IF Len(paragraphs) = 0 THEN paragraphs
    ELSE IF Len(columns) <= 1 THEN SortSlice(paragraphs, "paraY0")
    ELSE LET sortedCols == SortSlice(columns, "colX0")
         IN  ConcatAll([k \in DOMAIN sortedCols |->
                           SortSlice(SelectInColumn(paragraphs, sortedCols[k]), "paraY0")])

\* groupLinesIntoParagraphsAdaptive has produced one more paragraph
AddParagraph ==
    /\ ordPc = "input"
    /\ Len(ordParas) < MaxParas
    /\ \E para \in ParaPool : ordParas' = Append(ordParas, para)
    /\ UNCHANGED <<ordCols, ordered, ordPc>>
    /\ UNCHANGED nonOrderVars

\* buildParagraphs: "columns := detectColumns(words, pageWidth)"
CallDetectColumns ==
    /\ ordPc = "input"
    /\ Len(ordParas) > 0
    /\ \E valleys \in ValleyLayouts :
         \E occupied \in (SUBSET (0..Len(valleys))) \ {{}} :
            ordCols' = detectColumns(valleys, OrderPageWidth, occupied)
    /\ ordPc' = "columns"
    /\ UNCHANGED <<ordParas, ordered>>
    /\ UNCHANGED nonOrderVars

\* buildParagraphs: "paragraphs = determineReadingOrder(paragraphs, columns)"
CallDetermineReadingOrder ==
    /\ ordPc = "columns"
    /\ ordered' = determineReadingOrder(ordParas, ordCols)
    /\ ordPc' = "done"
    /\ UNCHANGED <<ordParas, ordCols>>
    /\ UNCHANGED nonOrderVars

OrderNext ==
    \/ AddParagraph
    \/ CallDetectColumns
    \/ CallDetermineReadingOrder

OrderInit == ConvInit /\ config = DefaultConfig /\ OtherIdle

SpecOrder == OrderInit /\ [][OrderNext]_vars

\* how often the paragraph occurs in the slice
TimesIn(para, paragraphs) ==
    Cardinality({k \in DOMAIN paragraphs : paragraphs[k] = para})

C9_Original ==
    (ordPc = "done" /\ Len(ordCols) >= 2) =>
        \A i, j \in DOMAIN ordered :
            \A ci, cj \in DOMAIN ordCols :
                (i < j /\ InColumn(ordered[i], ordCols[ci]) /\ InColumn(ordered[j], ordCols[cj])) =>
                    /\ ordCols[ci].Box.X0 <= ordCols[cj].Box.X0
                    /\ ci = cj => ordered[i].Box.Y0 < ordered[j].Box.Y0

\* C9, amended: with two or more columns, a paragraph of a column with
\* smaller x0 comes before every paragraph of a column with larger x0, and of
\* two paragraphs of one column the earlier has a y0 that is smaller or equal
\* (two paragraphs may start at the same height).
C9_ColumnMajorOrder ==
    (ordPc = "done" /\ Len(ordCols) >= 2) =>
        \A i, j \in DOMAIN ordered :
            \A ci, cj \in DOMAIN ordCols :
                (i < j /\ InColumn(ordered[i], ordCols[ci]) /\ InColumn(ordered[j], ordCols[cj])) =>
                    /\ ordCols[ci].Box.X0 <= ordCols[cj].Box.X0
                    /\ ci = cj => ordered[i].Box.Y0 <= ordered[j].Box.Y0

\* three columns; the input lists the right column's paragraph first and the
\* left column's paragraphs bottom-up; the output is left column top-down
\* (L2 above L1), then the middle, then the right
C9_Witness ==
    /\ ordPc = "done"
    /\ Len(ordCols) = 3
    /\ [k \in DOMAIN ordParas |-> ordParas[k].Text] = <<"R1", "L1", "M1", "L2">>
    /\ [k \in DOMAIN ordered |-> ordered[k].Text] = <<"L2", "L1", "M1", "R1">>

(***************************************************************************)
(* normalizeDocumentHeadings (markdown.go) on documents of many headings.  *)
(***************************************************************************)
MaxHeadings == 7
HeadingsPerPage == 4

\* heading font sizes, in the order in which a document first uses them
SizeOrder == <<14, 24, 10, 18, 12, 20, 16, 28, 9, 22>>

\* a heading as detectHeadings leaves it: its first line peaks at "size", a
\* later line is larger, and its level is the one found within its own page
HeadingPara(size) ==
    [Lines |-> <<[Words |-> <<ConvWord("Section", size - 2), ConvWord("One", size)>>],
                 [Words |-> <<ConvWord("(cont.)", 40)>>]>>,
     IsHeading |-> TRUE, HeadingLevel |-> (size % 3) + 1,
     IsList |-> FALSE, IsCode |-> FALSE]

\* paragraphs that are not collected: body text, and a heading without lines
UncollectedParas ==
    { ConvPara("body", 36, FALSE, 0),
      [Lines |-> <<>>, IsHeading |-> TRUE, HeadingLevel |-> 2,
       IsList |-> FALSE, IsCode |-> FALSE] }

\* where the paragraphs of a document are: <<page index, paragraph index>>
ParagraphPlaces(doc) ==
    UNION {{<<pi, pri>> : pri \in DOMAIN doc[pi].Paragraphs} : pi \in DOMAIN doc}

ParagraphAt(doc, place) == doc[place[1]].Paragraphs[place[2]]

CountParagraphs(doc) == Cardinality(ParagraphPlaces(doc))

\* len(headings) of normalizeDocumentHeadings
CountHeadings(doc) ==
    Cardinality({place \in ParagraphPlaces(doc) : IsCollectedHeading(ParagraphAt(doc, place))})

\* the paragraph goes on the last page, or on a new page when that one is full
AppendParagraph(doc, para) ==
    IF Len(doc[Len(doc)].Paragraphs) >= HeadingsPerPage
    THEN Append(doc, [Number |-> Len(doc) + 1, Paragraphs |-> <<para>>])
    ELSE [doc EXCEPT ![Len(doc)].Paragraphs = Append(@, para)]

\* extraction has found one more heading; its size is one already in use or
\* the next of SizeOrder
AddHeading ==
    /\ headPc = "input"
    /\ CountHeadings(headDoc) < MaxHeadings
    /\ \E k \in 1..Min2(Cardinality(HeadingSizes(headDoc)) + 1, Len(SizeOrder)) :
         headDoc' = AppendParagraph(headDoc, HeadingPara(SizeOrder[k]))
    /\ UNCHANGED headPc
    /\ UNCHANGED nonHeadVars

\* the document opens with a paragraph that is not a collected heading
AddUncollected ==
    /\ headPc = "input"
    /\ CountParagraphs(headDoc) = 0
    /\ \E para \in UncollectedParas : headDoc' = AppendParagraph(headDoc, para)
    /\ UNCHANGED headPc
    /\ UNCHANGED nonHeadVars

\* Document.ToMarkdown: "normalizeDocumentHeadings(d)"
CallNormalizeDocumentHeadings ==
    /\ headPc = "input"
    /\ headDoc' = normalizeDocumentHeadings(headDoc)
    /\ headPc' = "done"
    /\ UNCHANGED nonHeadVars

HeadNext ==
    \/ AddHeading
    \/ AddUncollected
    \/ CallNormalizeDocumentHeadings

HeadInit == ConvInit /\ config = DefaultConfig /\ OtherIdle

SpecHeadings == HeadInit /\ [][HeadNext]_vars

\* C10: after normalizeDocumentHeadings, of two heading paragraphs the one
\* whose first line has the larger maximum word font size has a heading level
\* that is smaller or equal.
C10_LargerHeadingNotDeeper ==
    headPc = "done" =>
        \A p, q \in ParagraphPlaces(headDoc) :
            LET hp == ParagraphAt(headDoc, p)
                hq == ParagraphAt(headDoc, q)
            IN  (IsCollectedHeading(hp) /\ IsCollectedHeading(hq)
                    /\ FirstLineMaxSize(hp) > FirstLineMaxSize(hq))
                => hp.HeadingLevel <= hq.HeadingLevel

\* a normalised document of seven headings of seven sizes on two pages, after
\* a body paragraph: the 24-point heading is level 1, the 14-point one level 5
\* and the two smallest (10 and 12 points) both level 6
C10_Witness ==
    /\ headPc = "done"
    /\ Len(headDoc) = 2
    /\ Cardinality(HeadingSizes(headDoc)) = 7
    /\ ~headDoc[1].Paragraphs[1].IsHeading
    /\ \E p, q, r, t \in ParagraphPlaces(headDoc) :
         /\ IsCollectedHeading(ParagraphAt(headDoc, p))
         /\ FirstLineMaxSize(ParagraphAt(headDoc, p)) = 24
         /\ ParagraphAt(headDoc, p).HeadingLevel = 1
         /\ IsCollectedHeading(ParagraphAt(headDoc, q))
         /\ FirstLineMaxSize(ParagraphAt(headDoc, q)) = 14
         /\ ParagraphAt(headDoc, q).HeadingLevel = 5
         /\ IsCollectedHeading(ParagraphAt(headDoc, r))
         /\ FirstLineMaxSize(ParagraphAt(headDoc, r)) = 12
         /\ ParagraphAt(headDoc, r).HeadingLevel = 6
         /\ IsCollectedHeading(ParagraphAt(headDoc, t))
         /\ FirstLineMaxSize(ParagraphAt(headDoc, t)) = 10
         /\ ParagraphAt(headDoc, t).HeadingLevel = 6

(***************************************************************************)
(* detectHeadings (structure.go) on one page, followed by                  *)
(* normalizeDocumentHeadings on the Document made of that page.            *)
(* Config.MinHeadingFontSize is in hundredths; "x >= y * 1.15" is          *)
(* 100 * x >= 115 * y.                                                     *)
(***************************************************************************)
MaxDetectParas == 10

DetWord(size, bold) ==
    [Text |-> <<119>>, FontSize |-> size, IsBold |-> bold, IsItalic |-> FALSE,
     IsMonospace |-> FALSE]

DetPara(lines) ==
    [Lines |-> [li \in DOMAIN lines |-> [Words |-> lines[li]]],
     IsHeading |-> FALSE, HeadingLevel |-> 0, IsList |-> FALSE, IsCode |-> FALSE]

\* body text: two lines of four 10-point words
DetBody ==
    DetPara(<<[k \in 1..4 |-> DetWord(10, FALSE)], [k \in 1..4 |-> DetWord(10, FALSE)]>>)

\* a paragraph whose first line (20 points) is larger than the rest (10 points)
DetSubsection ==
    DetPara(<<<<DetWord(20, FALSE)>>, <<DetWord(10, FALSE), DetWord(10, FALSE)>>>>)

\* one-line paragraphs are set in these sizes, in the order in which a page
\* first uses them; the 11- and 12-point ones are bold
DetSizeOrder == <<16, 24, 12, 20, 14, 22, 18, 11, 26, 28>>
DetBoldSizes == {11, 12}

DetOneLine(size) == DetPara(<<<<DetWord(size, size \in DetBoldSizes)>>>>)

\* all word font sizes of the paragraphs, in paragraph, line, word order
AllFontSizes(paragraphs) ==
    ConcatAll([pi \in DOMAIN paragraphs |->
        ConcatAll([li \in DOMAIN paragraphs[pi].Lines |->
            [wi \in DOMAIN paragraphs[pi].Lines[li].Words |->
                paragraphs[pi].Lines[li].Words[wi].FontSize]])])

\* the words of lines 2.. of a paragraph
RestWordSizes(para) ==
    ConcatAll([li \in 1..(Len(para.Lines) - 1) |->
        [wi \in DOMAIN para.Lines[li + 1].Words |-> para.Lines[li + 1].Words[wi].FontSize]])

RECURSIVE SumSeq(_)
SumSeq(seq) == IF seq = <<>> THEN 0 ELSE Head(seq) + SumSeq(Tail(seq))

HasFirstLine(para) == Len(para.Lines) > 0 /\ Len(para.Lines[1].Words) > 0

\* "maxFontSize >= avgRestSize*1.15 && maxFontSize >= bodyFontSize*config.MinHeadingFontSize"
\* for a paragraph of several lines whose later lines hold a word
FirstLineStandsOut(para, bodyFontSize, minHeading) ==
    LET rest == RestWordSizes(para)
        maxFontSize == FirstLineMaxSize(para)
    IN  /\ Len(rest) > 0
        /\ 100 * maxFontSize * Len(rest) >= 115 * SumSeq(rest)
        /\ 100 * maxFontSize >= bodyFontSize * minHeading

\* the paragraphs whose size enters fontSizeCount
CountsAsHeadingSize(para, bodyFontSize, minHeading) ==
    /\ HasFirstLine(para)
    /\ IF Len(para.Lines) > 1
       THEN FirstLineStandsOut(para, bodyFontSize, minHeading)
       ELSE 100 * FirstLineMaxSize(para) >= bodyFontSize * minHeading

\* "Mark headings in paragraphs", for one paragraph
MarkHeading(para, headingSizes, bodyFontSize, minHeading) ==
    LET maxFontSize == FirstLineMaxSize(para)
        known == \E i \in DOMAIN headingSizes : i - 1 < 6 /\ headingSizes[i] = maxFontSize
        level == CHOOSE i \in DOMAIN headingSizes : headingSizes[i] = maxFontSize
        isBold == \E wi \in DOMAIN para.Lines[1].Words : para.Lines[1].Words[wi].IsBold
    IN  IF ~HasFirstLine(para) THEN para
        ELSE IF Len(para.Lines) > 1
        THEN IF FirstLineStandsOut(para, bodyFontSize, minHeading) /\ known
             THEN [para EXCEPT !.IsHeading = TRUE, !.HeadingLevel = level]
             ELSE para
        ELSE IF known
        THEN [para EXCEPT !.IsHeading = TRUE, !.HeadingLevel = level]
        ELSE IF isBold /\ 100 * maxFontSize >= 105 * bodyFontSize
                       /\ 100 * maxFontSize >= bodyFontSize * minHeading
        THEN [para EXCEPT !.IsHeading = TRUE, !.HeadingLevel = 6]
        ELSE para

detectHeadings(paragraphs, minHeading) ==
    LET allFontSizes == SortSlice(AllFontSizes(paragraphs), "float64")
    IN  IF Len(paragraphs) = 0 \/ minHeading = 0 THEN paragraphs
        ELSE IF Len(allFontSizes) = 0 THEN paragraphs
        ELSE LET bodyFontSize == allFontSizes[(Len(allFontSizes) \div 2) + 1]
                 counted == {FirstLineMaxSize(paragraphs[pi]) :
                                pi \in {q \in DOMAIN paragraphs :
                                    CountsAsHeadingSize(paragraphs[q], bodyFontSize, minHeading)}}
                 headingSizes == SortDescending(counted)
             IN  [pi \in DOMAIN paragraphs |->
                    MarkHeading(paragraphs[pi], headingSizes, bodyFontSize, minHeading)]

\* EnrichedWord.IsBulletOrNumber: a bullet rune first, or a digit first and
\* "." or ")" last in a text of two or more runes
IsBulletOrNumber(w) ==
    IF Len(w.Text) = 0 THEN FALSE
    ELSE LET firstChar == w.Text[1]
             lastChar == w.Text[Len(w.Text)]
         IN  \/ firstChar \in {8226, 9702, 9642, 9643, 8211, 45, 42, 8594}
             \/ /\ Len(w.Text) >= 2
                /\ firstChar >= 48 /\ firstChar <= 57
                /\ lastChar \in {46, 41}

\* a variant: the list flag of a bulleted paragraph is turned over
detectLists_Toggle(paragraphs) ==
    [pi \in DOMAIN paragraphs |->
        IF HasFirstLine(paragraphs[pi]) /\ IsBulletOrNumber(paragraphs[pi].Lines[1].Words[1])
        THEN [paragraphs[pi] EXCEPT !.IsList = ~@]
        ELSE paragraphs[pi]]

detectLists(paragraphs) ==
    [pi \in DOMAIN paragraphs |->
        IF HasFirstLine(paragraphs[pi]) /\ IsBulletOrNumber(paragraphs[pi].Lines[1].Words[1])
        THEN [paragraphs[pi] EXCEPT !.IsList = TRUE]
        ELSE paragraphs[pi]]

\* "float64(monoCount)/float64(totalWords) > 0.8"
detectCodeBlocks(paragraphs) ==
    [pi \in DOMAIN paragraphs |->
        LET words == ConcatAll([li \in DOMAIN paragraphs[pi].Lines |->
                                   paragraphs[pi].Lines[li].Words])
            monoCount == Cardinality({wi \in DOMAIN words : words[wi].IsMonospace})
            totalWords == Len(words)
        IN  IF totalWords > 0 /\ 10 * monoCount > 8 * totalWords
            THEN [paragraphs[pi] EXCEPT !.IsCode = TRUE]
            ELSE paragraphs[pi]]

\* the end of buildParagraphs: detectHeadings, detectLists, detectCodeBlocks
AnnotateParagraphs(paragraphs, minHeading) ==
    detectCodeBlocks(detectLists(detectHeadings(paragraphs, minHeading)))

DetTextWord(text, mono) ==
    [Text |-> text, FontSize |-> 10, IsBold |-> FALSE, IsItalic |-> FALSE,
     IsMonospace |-> mono]

\* two-line paragraphs of 10-point words: a bulleted and a numbered item, a
\* paragraph that begins with a number without a closing "." or ")", code
\* (five monospace words) and a paragraph with four monospace words of five
DetListAndCode ==
    { DetPara(<<<<DetTextWord(<<8226>>, FALSE), DetTextWord(<<119>>, FALSE)>>,
                <<DetTextWord(<<119>>, FALSE)>>>>),
      DetPara(<<<<DetTextWord(<<49, 46>>, FALSE), DetTextWord(<<119>>, FALSE)>>,
                <<DetTextWord(<<119>>, FALSE)>>>>),
      DetPara(<<<<DetTextWord(<<49, 57>>, FALSE), DetTextWord(<<119>>, FALSE)>>,
                <<DetTextWord(<<119>>, FALSE)>>>>),
      DetPara(<<[k \in 1..3 |-> DetTextWord(<<119>>, TRUE)],
                [k \in 1..2 |-> DetTextWord(<<119>>, TRUE)]>>),
      DetPara(<<[k \in 1..3 |-> DetTextWord(<<119>>, TRUE)],
                <<DetTextWord(<<119>>, TRUE), DetTextWord(<<119>>, FALSE)>>>>) }

MinHeadingFontSizes == {0, 115, 130}

DetSizesUsed(paragraphs) ==
    {FirstLineMaxSize(paragraphs[pi]) :
        pi \in {q \in DOMAIN paragraphs : Len(paragraphs[q].Lines) = 1}}

DetCount(paragraphs, para) ==
    Cardinality({pi \in DOMAIN paragraphs : paragraphs[pi] = para})

\* the caller sets Config.MinHeadingFontSize before the page is processed
SetMinHeadingFontSize ==
    /\ detPc = "input"
    /\ detParas = <<>>
    /\ \E m \in MinHeadingFontSizes : m # detMin /\ detMin' = m
    /\ UNCHANGED <<detParas, detOut, detDoc, detPc>>
    /\ UNCHANGED nonDetectVars

\* buildParagraphs hands over one more paragraph: body text first, then body
\* text again, a subsection, or a one-line paragraph in the next unused size
AddDetectParagraph ==
    /\ detPc = "input"
    /\ Len(detParas) < MaxDetectParas
    /\ \E para \in {DetBody, DetSubsection} \cup
                   {DetOneLine(DetSizeOrder[k]) : k \in DOMAIN DetSizeOrder} :
          /\ detParas = <<>> => para = DetBody
          /\ para = DetBody => DetCount(detParas, DetBody) < 2
          /\ para = DetSubsection => DetCount(detParas, DetSubsection) < 1
          /\ Len(para.Lines) = 1 =>
                \E k \in DOMAIN DetSizeOrder :
                    /\ para = DetOneLine(DetSizeOrder[k])
                    /\ k = Cardinality(DetSizesUsed(detParas)) + 1
          /\ detParas' = Append(detParas, para)
    /\ UNCHANGED <<detMin, detOut, detDoc, detPc>>
    /\ UNCHANGED nonDetectVars

\* buildParagraphs hands over a list item or a code paragraph after the
\* body text and, at most, one other such paragraph
AddListOrCodeParagraph ==
    /\ detPc = "input"
    /\ Len(detParas) \in 1..2
    /\ Len(detParas) < MaxDetectParas
    /\ \A pi \in DOMAIN detParas : detParas[pi] \in {DetBody} \cup DetListAndCode
    /\ \E para \in DetListAndCode :
          /\ \A pi \in DOMAIN detParas : detParas[pi] # para
          /\ detParas' = Append(detParas, para)
    /\ UNCHANGED <<detMin, detOut, detDoc, detPc>>
    /\ UNCHANGED nonDetectVars

\* buildParagraphs: "detectHeadings(paragraphs, config)", "detectLists(paragraphs)",
\* "detectCodeBlocks(paragraphs)"
CallDetectHeadings ==
    /\ detPc = "input"
    /\ detParas # <<>>
    /\ detOut' = AnnotateParagraphs(detParas, detMin)
    /\ detPc' = "detected"
    /\ UNCHANGED <<detParas, detMin, detDoc>>
    /\ UNCHANGED nonDetectVars

\* "normalizeDocumentHeadings(doc)" in Document.ToMarkdown
NormalizeDetected ==
    /\ detPc = "detected"
    /\ detDoc' = normalizeDocumentHeadings(<<[Number |-> 1, Paragraphs |-> detOut]>>)
    /\ detPc' = "normalised"
    /\ UNCHANGED <<detParas, detMin, detOut>>
    /\ UNCHANGED nonDetectVars

DetectNext ==
    \/ SetMinHeadingFontSize
    \/ AddDetectParagraph
    \/ AddListOrCodeParagraph
    \/ CallDetectHeadings
    \/ NormalizeDetected

DetectInit == ConvInit /\ config = DefaultConfig /\ OtherIdle

SpecDetect == DetectInit /\ [][DetectNext]_vars

HeadingLevelsOf(paragraphs) ==
    {paragraphs[pi].HeadingLevel : pi \in {q \in DOMAIN paragraphs : paragraphs[q].IsHeading}}

\* C11: every paragraph that detectHeadings marks as a heading, and every
\* heading paragraph after normalizeDocumentHeadings, has a HeadingLevel in
\* 1..6, however many distinct heading sizes the page holds.
C11_HeadingLevelInRange ==
    /\ detPc \in {"detected", "normalised"} => HeadingLevelsOf(detOut) \subseteq 1..6
    /\ detPc = "normalised" => HeadingLevelsOf(detDoc[1].Paragraphs) \subseteq 1..6

\* seven heading sizes on the page, the seventh a bold one-line paragraph
C11_Witness ==
    /\ detPc = "normalised"
    /\ Cardinality({FirstLineMaxSize(detOut[pi]) :
            pi \in {q \in DOMAIN detOut : detOut[q].IsHeading}}) >= 7
    /\ \E pi \in DOMAIN detOut :
          /\ detOut[pi].IsHeading
          /\ detOut[pi].HeadingLevel = 6
          /\ FirstLineMaxSize(detOut[pi]) = 12
          /\ detDoc[1].Paragraphs[pi].HeadingLevel = 6

\* bodyFontSize: the entry at len/2 of the sorted word font sizes
BodyFontSize(paragraphs) ==
    LET allFontSizes == SortSlice(AllFontSizes(paragraphs), "float64")
    IN  allFontSizes[(Len(allFontSizes) \div 2) + 1]

\* the keys of fontSizeCount: the distinct candidate heading sizes
CandidateSizes(paragraphs, minHeading) ==
    {FirstLineMaxSize(paragraphs[pi]) :
        pi \in {q \in DOMAIN paragraphs :
            CountsAsHeadingSize(paragraphs[q], BodyFontSize(paragraphs), minHeading)}}

\* the place (from 0) of size among the candidate sizes in descending order
PlaceDescending(sizes, size) == Cardinality({c \in sizes : c > size})

\* C23: after detectHeadings every paragraph whose first-line maximum font
\* size is a candidate heading size is a heading, and its level is the place
\* of that size among the distinct candidate sizes in descending order:
\* 1..6 for places 0..5 and 6 for every further size.
C23_CandidateSizesGetLevels ==
    (detPc = "detected" /\ detMin # 0) =>
        LET sizes == CandidateSizes(detParas, detMin)
        IN  \A pi \in DOMAIN detParas :
                (HasFirstLine(detParas[pi]) /\ FirstLineMaxSize(detParas[pi]) \in sizes) =>
                    /\ detOut[pi].IsHeading
                    /\ detOut[pi].HeadingLevel =
                           Min2(PlaceDescending(sizes, FirstLineMaxSize(detParas[pi])) + 1, 6)

\* IsHeading, HeadingLevel, IsList and IsCode of each paragraph
FlagsOf(paragraphs) ==
    [pi \in DOMAIN paragraphs |->
        <<paragraphs[pi].IsHeading, paragraphs[pi].HeadingLevel,
          paragraphs[pi].IsList, paragraphs[pi].IsCode>>]

\* C25: detectHeadings, detectLists and detectCodeBlocks applied once more to
\* the paragraphs they have annotated, and normalizeDocumentHeadings applied
\* once more to the document it has normalised, change no IsHeading,
\* HeadingLevel, IsList or IsCode value.
C25_AnnotationIdempotent ==
    /\ detPc \in {"detected", "normalised"} =>
          FlagsOf(AnnotateParagraphs(detOut, detMin)) = FlagsOf(detOut)
    /\ detPc = "normalised" =>
          FlagsOf(normalizeDocumentHeadings(detDoc)[1].Paragraphs)
              = FlagsOf(detDoc[1].Paragraphs)

\* a normalised page with a list item, a code paragraph and headings of two levels
C25_Witness ==
    /\ detPc = "normalised"
    /\ \E pi \in DOMAIN detOut : detOut[pi].IsList
    /\ \E pi \in DOMAIN detOut : detOut[pi].IsCode
    /\ \E pi \in DOMAIN detOut : detOut[pi].IsHeading /\ detOut[pi].HeadingLevel = 2
    /\ \E pi \in DOMAIN detOut : ~detOut[pi].IsList /\ ~detOut[pi].IsCode /\ ~detOut[pi].IsHeading

(***************************************************************************)
(* deduplicateTables on a list of distinct tables.                         *)
(***************************************************************************)
MaxTables == 3

\* TableD overlaps TableB by 0.7225 and TableA by 0.64; TableE overlaps
\* TableC by 0.81
TableD == ConvTable(20, 20, 120, 120)
TableE == ConvTable(210, 10, 310, 110)
TablePool == {TableA, TableB, TableC, TableD, TableE}

\* "allTables = append(allTables, ...)": one more table, not yet in the list
AddTable ==
    /\ dedPc = "input"
    /\ Len(dedTables) < MaxTables
    /\ \E t \in TablePool :
          /\ \A i \in DOMAIN dedTables : dedTables[i] # t
          /\ dedTables' = Append(dedTables, t)
    /\ UNCHANGED <<dedUnique, dedPc>>
    /\ UNCHANGED nonDedupVars

\* "tables = deduplicateTables(allTables)"
CallDeduplicateTables ==
    /\ dedPc = "input"
    /\ dedUnique' = deduplicateTables(dedTables)
    /\ dedPc' = "done"
    /\ UNCHANGED dedTables
    /\ UNCHANGED nonDedupVars

DedupNext ==
    \/ AddTable
    \/ CallDeduplicateTables

DedupInit == ConvInit /\ config = DefaultConfig /\ OtherIdle

SpecDedup == DedupInit /\ [][DedupNext]_vars

Kept(t) == \E k \in DOMAIN dedUnique : dedUnique[k] = t

\* C12: whenever two input tables overlap by more than 0.7, one of the two
\* is discarded and the one that is kept is the first of the pair in input
\* order.
C12_KeepsFirstOfPair ==
    dedPc = "done" =>
        \A i, j \in DOMAIN dedTables :
            (i < j /\ OverlapSignificant(dedTables[i], dedTables[j])) =>
                Kept(dedTables[i]) /\ ~Kept(dedTables[j])

(***************************************************************************)
(* utils.go: horizontalOverlapRatio, horizontalDistance,                   *)
(* verticalOverlapRatio, verticalDistance.  A ratio is the fraction        *)
(* <<numerator, denominator>>, <<0, 1>> for "return 0".                    *)
(***************************************************************************)
MaxCoord == 3

MaxFloat64 == 1000000000

Width(r) == r.X1 - r.X0

\* the number of the first condition that holds, 0 for (false, 0)
checkHorizontalOverlap(r1, r2) ==
    IF r2.Y0 <= r1.Y0 /\ r1.Y0 <= r2.Y1 /\ r2.Y1 <= r1.Y1 THEN 1
    ELSE IF r1.Y0 <= r2.Y0 /\ r2.Y0 <= r1.Y1 /\ r1.Y1 <= r2.Y1 THEN 2
    ELSE IF r1.Y0 <= r2.Y0 /\ r2.Y0 <= r2.Y1 /\ r2.Y1 <= r1.Y1 THEN 3
    ELSE IF r2.Y0 <= r1.Y0 /\ r1.Y0 <= r1.Y1 /\ r1.Y1 <= r2.Y1 THEN 4
    ELSE 0

\* a variant: condition 1 returns r1's height
horizontalOverlapRatio_Case1Height(r1, r2) ==
    LET condition == checkHorizontalOverlap(r1, r2)
        delta == Min2(Height(r1), Height(r2))
    IN  IF condition = 0 THEN <<0, 1>>
        ELSE IF delta = 0 THEN <<0, 1>>
        ELSE CASE condition = 1 -> <<r1.Y1 - r1.Y0, delta>>
               [] condition = 2 -> <<r1.Y1 - r2.Y0, delta>>
               [] condition = 3 -> <<r2.Y1 - r2.Y0, delta>>
               [] condition = 4 -> <<r1.Y1 - r1.Y0, delta>>

horizontalOverlapRatio(r1, r2) ==
    LET condition == checkHorizontalOverlap(r1, r2)
        delta == Min2(Height(r1), Height(r2))
    IN  IF condition = 0 THEN <<0, 1>>
        ELSE IF delta = 0 THEN <<0, 1>>
        ELSE CASE condition = 1 -> <<r2.Y1 - r1.Y0, delta>>
               [] condition = 2 -> <<r1.Y1 - r2.Y0, delta>>
               [] condition = 3 -> <<r2.Y1 - r2.Y0, delta>>
               [] condition = 4 -> <<r1.Y1 - r1.Y0, delta>>

horizontalDistance(r1, r2) ==
    IF checkHorizontalOverlap(r1, r2) = 0 THEN MaxFloat64
    ELSE IF r1.X1 < r2.X0 THEN r2.X0 - r1.X1
    ELSE IF r2.X1 < r1.X0 THEN r1.X0 - r2.X1
    ELSE 0

checkVerticalOverlap(r1, r2) ==
    IF r2.X0 <= r1.X0 /\ r1.X0 <= r2.X1 /\ r2.X1 <= r1.X1 THEN 1
    ELSE IF r1.X0 <= r2.X0 /\ r2.X0 <= r1.X1 /\ r1.X1 <= r2.X1 THEN 2
    ELSE IF r1.X0 <= r2.X0 /\ r2.X0 <= r2.X1 /\ r2.X1 <= r1.X1 THEN 3
    ELSE IF r2.X0 <= r1.X0 /\ r1.X0 <= r1.X1 /\ r1.X1 <= r2.X1 THEN 4
    ELSE 0

verticalOverlapRatio(r1, r2) ==
    LET condition == checkVerticalOverlap(r1, r2)
        delta == Min2(Width(r1), Width(r2))
    IN  IF condition = 0 THEN <<0, 1>>
        ELSE IF delta = 0 THEN <<0, 1>>
        ELSE CASE condition = 1 -> <<r2.X1 - r1.X0, delta>>
               [] condition = 2 -> <<r1.X1 - r2.X0, delta>>
               [] condition = 3 -> <<r2.X1 - r2.X0, delta>>
               [] condition = 4 -> <<r1.X1 - r1.X0, delta>>

verticalDistance(r1, r2) ==
    IF checkVerticalOverlap(r1, r2) = 0 THEN MaxFloat64
    ELSE IF r1.Y1 < r2.Y0 THEN r2.Y0 - r1.Y1
    ELSE IF r2.Y1 < r1.Y0 THEN r1.Y0 - r2.Y1
    ELSE 0

\* the rectangles with x0 <= x1 and y0 <= y1 on the grid 0..MaxCoord
Rects ==
    {r \in [X0 : 0..MaxCoord, Y0 : 0..MaxCoord, X1 : 0..MaxCoord, Y1 : 0..MaxCoord] :
        r.X0 <= r.X1 /\ r.Y0 <= r.Y1}

\* the four helpers on (a, b)
GeomResults(a, b) ==
    [horizontalOverlapRatio |-> horizontalOverlapRatio(a, b),
     verticalOverlapRatio |-> verticalOverlapRatio(a, b),
     horizontalDistance |-> horizontalDistance(a, b),
     verticalDistance |-> verticalDistance(a, b)]

\* a caller has two boxes at hand
ChooseRects ==
    /\ geoPc = "input"
    /\ \E a \in Rects, b \in Rects : geoR1' = a /\ geoR2' = b
    /\ geoPc' = "chosen"
    /\ UNCHANGED geoOut
    /\ UNCHANGED nonGeomVars

\* the helpers are called with the boxes in both orders
CallOverlapAndDistance ==
    /\ geoPc = "chosen"
    /\ geoOut' = <<GeomResults(geoR1, geoR2), GeomResults(geoR2, geoR1)>>
    /\ geoPc' = "done"
    /\ UNCHANGED <<geoR1, geoR2>>
    /\ UNCHANGED nonGeomVars

GeomNext ==
    \/ ChooseRects
    \/ CallOverlapAndDistance

GeomInit == ConvInit /\ config = DefaultConfig /\ OtherIdle

SpecGeom == GeomInit /\ [][GeomNext]_vars

\* C14: horizontalOverlapRatio, verticalOverlapRatio, horizontalDistance and
\* verticalDistance give the same result for (r1, r2) and (r2, r1), for all
\* rectangles with x0 <= x1 and y0 <= y1: touching, nested, identical and
\* zero-size ones included.
C14_Symmetric ==
    geoPc = "done" => geoOut[1] = geoOut[2]

\* two different boxes that overlap in part in both directions
C14_Witness ==
    /\ geoPc = "done"
    /\ geoR1 # geoR2
    /\ checkHorizontalOverlap(geoR1, geoR2) = 1
    /\ checkVerticalOverlap(geoR1, geoR2) = 2
    /\ geoOut[1].horizontalOverlapRatio = <<1, 2>>
    /\ geoOut[2].verticalOverlapRatio = <<1, 2>>

(***************************************************************************)
(* Segment-based table detection (segments.go): lines -> segments ->       *)
(* tagged lines -> table areas -> blocks -> rows -> columns -> cells.      *)
(* Word coordinates are even, so that the column midpoints are integers.   *)
(***************************************************************************)
MaxSegRows == 4

\* AdaptiveThresholds: the fallback values of calculateAdaptiveThresholds
HorizontalThreshold == 20
VerticalThreshold == 5

\* the pair (i, j), i < j, that the double loop "if dist < minDist" ends
\* with, and its distance; <<0, 0, MaxFloat64>> for minI == -1
ClosestPair(clusters, Dist(_, _)) ==
    LET pairs == {p \in (DOMAIN clusters) \X (DOMAIN clusters) : p[1] < p[2]}
        d(p) == Dist(clusters[p[1]], clusters[p[2]])
        best == {p \in pairs :
                    /\ d(p) < MaxFloat64
                    /\ \A q \in pairs : d(p) <= d(q)}
    IN  IF best = {} THEN <<0, 0, MaxFloat64>>
        ELSE LET p == CHOOSE x \in best : \A y \in best :
                          x[1] < y[1] \/ (x[1] = y[1] /\ x[2] <= y[2])
             IN  <<p[1], p[2], d(p)>>

\* a variant: merged takes the place of clusters[minI], clusters[minJ] stays
ReplacePair_KeepBoth(clusters, minI, minJ, merged) ==
    [k \in DOMAIN clusters |-> IF k = minI THEN merged ELSE clusters[k]]

\* "newClusters": merged takes the place of clusters[minI], clusters[minJ] goes
ReplacePair(clusters, minI, minJ, merged) ==
    [k \in 1..(Len(clusters) - 1) |->
        IF k = minI THEN merged
        ELSE IF k < minJ THEN clusters[k]
        ELSE clusters[k + 1]]

SegmentDist(a, b) == horizontalDistance(a.Box, b.Box)

RECURSIVE ClusterSegments(_, _)
ClusterSegments(clusters, hT) ==
    LET m == ClosestPair(clusters, SegmentDist)
    IN  IF m[3] > hT \/ m[1] = 0 THEN clusters
        ELSE ClusterSegments(
                ReplacePair(clusters, m[1], m[2],
                    [Words |-> clusters[m[1]].Words \o clusters[m[2]].Words,
                     Box |-> mergeRects(clusters[m[1]].Box, clusters[m[2]].Box)]),
                hT)

buildSegmentsFromLine(line, hT) ==
    IF Len(line.Words) = 0 THEN <<>>
    ELSE IF Len(line.Words) = 1
    THEN <<[Words |-> line.Words, Box |-> line.Words[1].Box]>>
    ELSE ClusterSegments(
            [i \in DOMAIN line.Words |->
                [Words |-> <<line.Words[i]>>, Box |-> line.Words[i].Box]], hT)

tagLine(line, segments, pageWidth) ==
    IF Len(segments) = 0 THEN "UnL"
    ELSE IF Len(segments) = 1
    THEN IF 2 * Width(segments[1].Box) > pageWidth THEN "TxL" ELSE "UnL"
    ELSE "TbL"

buildTaggedLines(lines, hT, pageWidth) ==
    [i \in DOMAIN lines |->
        LET segments == buildSegmentsFromLine(lines[i], hT)
        IN  [Line |-> lines[i], Segments |-> segments,
             Type |-> tagLine(lines[i], segments, pageWidth)]]

createTableArea(lines) ==
    [Lines |-> lines,
     Box |-> UnionBoxes([i \in DOMAIN lines |-> lines[i].Line], 2, lines[1].Line.Box)]

\* areas and currentArea after line i
RECURSIVE TableAreasFrom(_, _, _, _)
TableAreasFrom(taggedLines, i, areas, currentArea) ==
    IF i > Len(taggedLines) THEN areas
    ELSE LET tl == taggedLines[i]
             inTable == tl.Type \in {"TbL", "UnL"}
             grown == IF inTable THEN Append(currentArea, tl) ELSE <<>>
             closed == IF ~inTable /\ Len(currentArea) > 0
                       THEN Append(areas, createTableArea(currentArea))
                       ELSE areas
         IN  IF i = Len(taggedLines) /\ Len(grown) > 0
             THEN Append(closed, createTableArea(grown))
             ELSE TableAreasFrom(taggedLines, i + 1, closed, grown)

buildTableAreas(taggedLines) == TableAreasFrom(taggedLines, 1, <<>>, <<>>)

\* the indices of a set in ascending order (sort.Ints)
RECURSIVE SortInts(_)
SortInts(S) ==
    IF S = {} THEN <<>>
    ELSE LET m == CHOOSE x \in S : \A y \in S : x <= y
         IN  <<m>> \o SortInts(S \ {m})

\* verticalOverlapRatio(a, b) > 0.3
OverlapsVertically(a, b) ==
    LET o == verticalOverlapRatio(a, b) IN 10 * o[1] > 3 * o[2]

\* blocks are merged only when they overlap vertically by more than 0.3
BlockDist(a, b) ==
    IF OverlapsVertically(a.Box, b.Box) THEN verticalDistance(a.Box, b.Box)
    ELSE MaxFloat64

RECURSIVE ClusterBlocks(_, _)
ClusterBlocks(clusters, vT) ==
    LET m == ClosestPair(clusters, BlockDist)
    IN  IF m[3] > vT \/ m[1] = 0 THEN clusters
        ELSE ClusterBlocks(
                ReplacePair(clusters, m[1], m[2],
                    [Segments |-> clusters[m[1]].Segments \o clusters[m[2]].Segments,
                     Box |-> mergeRects(clusters[m[1]].Box, clusters[m[2]].Box),
                     LineIndices |->
                        SortInts({clusters[m[1]].LineIndices[k] :
                                      k \in DOMAIN clusters[m[1]].LineIndices}
                                 \cup {clusters[m[2]].LineIndices[k] :
                                      k \in DOMAIN clusters[m[2]].LineIndices})]),
                vT)

\* line indices count from 1
buildBlocksFromTableArea(area, vT) ==
    LET allSegments ==
            ConcatAll([li \in DOMAIN area.Lines |->
                [si \in DOMAIN area.Lines[li].Segments |->
                    [Segments |-> <<area.Lines[li].Segments[si]>>,
                     Box |-> area.Lines[li].Segments[si].Box,
                     LineIndices |-> <<li>>]]])
    IN  IF Len(area.Lines) = 0 \/ Len(allSegments) = 0 THEN <<>>
        ELSE ClusterBlocks(allSegments, vT)

LineRow(tl) == [Lines |-> <<tl>>, Segments |-> tl.Segments, Box |-> tl.Line.Box]

\* the lines of idxs (ascending) that are not in assigned, each as its own row
RowsOfLines(area, idxs, assigned) ==
    LET fresh == SelectSeq(idxs, LAMBDA idx : idx \notin assigned)
    IN  [k \in DOMAIN fresh |-> LineRow(area.Lines[fresh[k]])]

\* rows and assignedLines after block bi
RECURSIVE RowsFromBlocks(_, _, _, _, _)
RowsFromBlocks(area, blocks, bi, assigned, rows) ==
    IF bi > Len(blocks) THEN <<rows, assigned>>
    ELSE LET block == blocks[bi]
             idxSet == {block.LineIndices[k] : k \in DOMAIN block.LineIndices}
             tableLineCount == Cardinality({idx \in idxSet : area.Lines[idx].Type = "TbL"})
             fresh == SelectSeq(block.LineIndices, LAMBDA idx : idx \notin assigned)
         IN  IF Len(block.LineIndices) > 1 /\ tableLineCount = 1
             THEN RowsFromBlocks(area, blocks, bi + 1, assigned \cup idxSet,
                    IF Len(fresh) > 0
                    THEN Append(rows,
                            [Lines |-> [k \in DOMAIN fresh |-> area.Lines[fresh[k]]],
                             Segments |-> block.Segments, Box |-> block.Box])
                    ELSE rows)
             ELSE RowsFromBlocks(area, blocks, bi + 1, assigned \cup idxSet,
                    rows \o RowsOfLines(area, block.LineIndices, assigned))

buildRowsFromBlocks(area, blocks) ==
    IF Len(area.Lines) = 0 THEN <<>>
    ELSE LET r == RowsFromBlocks(area, blocks, 1, {}, <<>>)
             allIdx == [k \in DOMAIN area.Lines |-> k]
         IN  SortSlice(r[1] \o RowsOfLines(area, allIdx, r[2]), "rowY0")

\* columns after segment i: a segment joins every column it overlaps by more
\* than 0.3, or starts a column of its own
RECURSIVE ColumnsFromSegments(_, _, _)
ColumnsFromSegments(allSegments, i, columns) ==
    IF i > Len(allSegments) THEN columns
    ELSE LET seg == allSegments[i]
             overlappingCols == {c \in DOMAIN columns :
                                    OverlapsVertically(seg.Box, columns[c].Box)}
         IN  ColumnsFromSegments(allSegments, i + 1,
                IF overlappingCols = {}
                THEN Append(columns, [Segments |-> <<seg>>, Box |-> seg.Box])
                ELSE [c \in DOMAIN columns |->
                        IF c \in overlappingCols
                        THEN [Segments |-> Append(columns[c].Segments, seg),
                              Box |-> mergeRects(columns[c].Box, seg.Box)]
                        ELSE columns[c]])

\* toMerge[sIdx]: the first multi-segment column whose centre is nearer than
\* hT to the single-segment column sIdx, 0 when there is none
MergeTarget(columns, sIdx, hT) ==
    LET near == {mIdx \in DOMAIN columns :
                    /\ Len(columns[mIdx].Segments) # 1
                    /\ Abs(CenterX2(columns[sIdx].Box) - CenterX2(columns[mIdx].Box)) < 2 * hT}
    IN  IF Len(columns[sIdx].Segments) # 1 \/ near = {} THEN 0
        ELSE CHOOSE m \in near : \A o \in near : m <= o

\* the merges are made in the order of a map range; the boxes do not depend
\* on it, the order of the Segments of a column does (ascending sIdx here)
mergeSingleSegmentColumns(columns, hT) ==
    IF Len(columns) <= 1 THEN columns
    ELSE LET absorbed(m) == SortInts({sIdx \in DOMAIN columns :
                                         MergeTarget(columns, sIdx, hT) = m})
             grown == [m \in DOMAIN columns |->
                          [Segments |-> columns[m].Segments \o
                               ConcatAll([k \in DOMAIN absorbed(m) |->
                                             columns[absorbed(m)[k]].Segments]),
                           Box |-> UnionBoxes([k \in DOMAIN absorbed(m) |->
                                                  columns[absorbed(m)[k]]],
                                              1, columns[m].Box)]]
             keep == SortInts({i \in DOMAIN columns : MergeTarget(columns, i, hT) = 0})
         IN  [k \in DOMAIN keep |-> grown[keep[k]]]

makeColumnsContiguous(columns) ==
    IF Len(columns) <= 1 THEN columns
    ELSE LET sorted == SortSlice(columns, "colX0")
             midpoint(i) == (sorted[i].Box.X1 + sorted[i + 1].Box.X0) \div 2
         IN  [i \in DOMAIN sorted |->
                [sorted[i] EXCEPT
                    !.Box.X0 = IF i > 1 THEN midpoint(i - 1) ELSE @,
                    !.Box.X1 = IF i < Len(sorted) THEN midpoint(i) ELSE @]]

buildColumnsFromRows(rows, hT) ==
    LET allSegments == ConcatAll([r \in DOMAIN rows |-> rows[r].Segments])
    IN  IF Len(rows) = 0 \/ Len(allSegments) = 0 THEN <<>>
        ELSE makeColumnsContiguous(
                SortSlice(mergeSingleSegmentColumns(
                              ColumnsFromSegments(allSegments, 1, <<>>), hT),
                          "colX0"))

\* the centre of the word is inside the box, edges included
wordInBox(word, box) ==
    /\ CenterX2(word.Box) >= 2 * box.X0 /\ CenterX2(word.Box) <= 2 * box.X1
    /\ CenterY2(word.Box) >= 2 * box.Y0 /\ CenterY2(word.Box) <= 2 * box.Y1

\* the texts joined by a space (32) on one line and a newline (10) between lines
CellContent(cellWords) ==
    ConcatAll([i \in DOMAIN cellWords |->
        cellWords[i].Text \o
            (IF i < Len(cellWords)
             THEN IF Abs(cellWords[i].Box.Y0 - cellWords[i + 1].Box.Y0) < 3
                  THEN <<32>> ELSE <<10>>
             ELSE <<>>)])

buildCellsFromRowsAndColumns(rows, columns) ==
    IF Len(rows) = 0 \/ Len(columns) = 0 THEN <<>>
    ELSE [r \in DOMAIN rows |->
            [c \in DOMAIN columns |->
                LET cellBox == [X0 |-> columns[c].Box.X0, Y0 |-> rows[r].Box.Y0,
                                X1 |-> columns[c].Box.X1, Y1 |-> rows[r].Box.Y1]
                    rowWords == ConcatAll([si \in DOMAIN rows[r].Segments |->
                                              rows[r].Segments[si].Words])
                    cellWords == SortSlice(
                                    SelectSeq(rowWords, LAMBDA w : wordInBox(w, cellBox)),
                                    "cell")
                IN  [Content |-> CellContent(cellWords), Row |-> r, Column |-> c,
                     Box |-> cellBox]]]

CellBBox(box) == [X0 |-> box.X0, Top |-> box.Y0, X1 |-> box.X1, Bottom |-> box.Y1]

convertCellGridToTable(grid, box) ==
    [BBox |-> CellBBox(box),
     Rows |-> [r \in DOMAIN grid |->
                [Cells |-> [c \in DOMAIN grid[r] |->
                              [BBox |-> CellBBox(grid[r][c].Box),
                               Content |-> grid[r][c].Content]],
                 BBox |-> CellBBox(box)]],
     NumRows |-> Len(grid),
     NumCols |-> Len(grid[1])]

\* the table of one area, <<>> when the grid is empty
AreaTables(area, hT, vT) ==
    LET blocks == buildBlocksFromTableArea(area, vT)
        rows == buildRowsFromBlocks(area, blocks)
        columns == buildColumnsFromRows(rows, hT)
        cellGrid == buildCellsFromRowsAndColumns(rows, columns)
    IN  IF Len(cellGrid) > 0 /\ Len(cellGrid[1]) > 0
        THEN <<convertCellGridToTable(cellGrid, area.Box)>>
        ELSE <<>>

DetectTablesSegmentBased(words, pageWidth, hT, vT) ==
    IF Len(words) = 0 THEN <<>>
    ELSE LET lines == groupWordsIntoLinesBaseline(words)
             taggedLines == buildTaggedLines(lines, hT, pageWidth)
             tableAreas == buildTableAreas(taggedLines)
         IN  ConcatAll([a \in DOMAIN tableAreas |-> AreaTables(tableAreas[a], hT, vT)])

SegPageWidth == 612

\* the word of row r in place k: places 0, 1 and 2 start at x = 50, 100 and
\* 200 and are 40 wide (0 and 1 are one segment, 2 is a segment of its own),
\* place 3 is a 350-wide word at x = 50; rows are 14 apart and 10 high
SegWord(r, k) ==
    LET x0 == IF k = 1 THEN 100 ELSE IF k = 2 THEN 200 ELSE 50
        x1 == IF k = 3 THEN 400 ELSE x0 + 40
    IN  LineWord(<<65 + k>>, x0, 100 + 14 * r, x1, 110 + 14 * r, 10, 0)

\* what a row of the page holds: nothing, one cell, two cells, two words of
\* one cell, or a line of running text
RowKinds == {<<>>, <<0>>, <<2>>, <<0, 2>>, <<0, 1>>, <<3>>}

\* the next row of the page is laid out
AddSegRow ==
    /\ segPc = "input"
    /\ segRow < MaxSegRows
    /\ \E kind \in RowKinds :
          segWords' = segWords \o [i \in DOMAIN kind |-> SegWord(segRow, kind[i])]
    /\ segRow' = segRow + 1
    /\ UNCHANGED <<segOut, segPc>>
    /\ UNCHANGED nonSegVars

\* "segmentTables := DetectTablesSegmentBased(page, thresholds)"
CallDetectTablesSegmentBased ==
    /\ segPc = "input"
    /\ segOut' = DetectTablesSegmentBased(segWords, SegPageWidth,
                                          HorizontalThreshold, VerticalThreshold)
    /\ segPc' = "done"
    /\ UNCHANGED <<segWords, segRow>>
    /\ UNCHANGED nonSegVars

SegNext ==
    \/ AddSegRow
    \/ CallDetectTablesSegmentBased

SegInit == ConvInit /\ config = DefaultConfig /\ OtherIdle

SpecSegments == SegInit /\ [][SegNext]_vars

CellsOf(table) ==
    {<<r, c>> : r \in DOMAIN table.Rows, c \in 1..table.NumCols}

NonEmptyCellsOf(table) ==
    {rc \in CellsOf(table) :
        /\ rc[2] \in DOMAIN table.Rows[rc[1]].Cells
        /\ table.Rows[rc[1]].Cells[rc[2]].Content # <<>>}

\* C13: every table returned by DetectTablesSegmentBased has at least 4 rows
\* and at least 2 columns, has non-empty content in at least 40% of its
\* cells, and has the same number of cells in every row.
C13_ReturnedTablesValid ==
    segPc = "done" =>
        \A t \in DOMAIN segOut :
            /\ segOut[t].NumRows >= 4
            /\ segOut[t].NumCols >= 2
            /\ 10 * Cardinality(NonEmptyCellsOf(segOut[t]))
                   >= 4 * Cardinality(CellsOf(segOut[t]))
            /\ \A r \in DOMAIN segOut[t].Rows :
                   Len(segOut[t].Rows[r].Cells) = segOut[t].NumCols


\* the table areas DetectTablesSegmentBased finds on the page
SegTableAreas ==
    IF Len(segWords) = 0 THEN <<>>
    ELSE buildTableAreas(buildTaggedLines(groupWordsIntoLinesBaseline(segWords),
                                          HorizontalThreshold, SegPageWidth))

\* the rows DetectTablesSegmentBased builds for the area
SegRowsOf(area) ==
    buildRowsFromBlocks(area, buildBlocksFromTableArea(area, VerticalThreshold))

\* the places (row, index) at which the segment stands in the rows
RowPlacesOf(segment, rows) ==
    {rk \in {<<r, k>> : r \in DOMAIN rows, k \in 1..Len(segWords)} :
        rk[2] \in DOMAIN rows[rk[1]].Segments /\ rows[rk[1]].Segments[rk[2]] = segment}

\* C29: buildRowsFromBlocks loses no segment: every segment of every line of
\* a table area stands in exactly one of the rows returned for the area.
C29_NoSegmentLost ==
    segPc = "done" =>
        \A a \in DOMAIN SegTableAreas :
            \A li \in DOMAIN SegTableAreas[a].Lines :
                \A si \in DOMAIN SegTableAreas[a].Lines[li].Segments :
                    Cardinality(RowPlacesOf(SegTableAreas[a].Lines[li].Segments[si],
                                            SegRowsOf(SegTableAreas[a]))) = 1

(***************************************************************************)
(* expandLigatures and deduplicateCJKChars (extract.go).  A Text is the    *)
(* sequence of its runes: the texts aggregateWord builds are written rune  *)
(* by rune, so []rune(word.Text) and string(runes) lose nothing.           *)
(***************************************************************************)
MaxRunes == 4

\* U+FB03 expands to "fi"; a variant
ligatureMap_FfiAsFi ==
    [r \in 64256..64262 |->
        CASE r = 64256 -> <<102, 102>>
          [] r = 64257 -> <<102, 105>>
          [] r = 64258 -> <<102, 108>>
          [] r = 64259 -> <<102, 105>>
          [] r = 64260 -> <<102, 102, 108>>
          [] r = 64261 -> <<102, 116>>
          [] r = 64262 -> <<115, 116>>]

\* ligatureMap: 0xFB00 "ff", 0xFB01 "fi", 0xFB02 "fl", 0xFB03 "ffi",
\* 0xFB04 "ffl", 0xFB05 "ft", 0xFB06 "st"
ligatureMap ==
    [r \in 64256..64262 |->
        CASE r = 64256 -> <<102, 102>>
          [] r = 64257 -> <<102, 105>>
          [] r = 64258 -> <<102, 108>>
          [] r = 64259 -> <<102, 102, 105>>
          [] r = 64260 -> <<102, 102, 108>>
          [] r = 64261 -> <<102, 116>>
          [] r = 64262 -> <<115, 116>>]

\* the loop body of expandLigatures for one word
ExpandWord(word) ==
    LET runes == word.Text
        hasLigature == \E k \in DOMAIN runes : runes[k] \in DOMAIN ligatureMap
        expanded == ConcatAll([k \in DOMAIN runes |->
                        IF runes[k] \in DOMAIN ligatureMap
                        THEN ligatureMap[runes[k]] ELSE <<runes[k]>>])
    IN  IF ~hasLigature THEN word ELSE [word EXCEPT !.Text = expanded]

expandLigatures(words) == [i \in DOMAIN words |-> ExpandWord(words[i])]

isCJK(r) ==
    \/ (r >= 19968 /\ r <= 40959)
    \/ (r >= 13312 /\ r <= 19903)
    \/ (r >= 131072 /\ r <= 173791)
    \/ (r >= 173824 /\ r <= 177983)
    \/ (r >= 177984 /\ r <= 178207)
    \/ (r >= 178208 /\ r <= 183983)
    \/ (r >= 63744 /\ r <= 64255)
    \/ (r >= 194560 /\ r <= 195103)

containsCJK(runes) == \E k \in DOMAIN runes : isCJK(runes[k])

\* "avgCharWidth < word.FontSize*0.7", avgCharWidth = Box.Width() / len(runes)
LooksOverprinted(word) ==
    10 * Width(word.Box) < 7 * word.FontSize * Len(word.Text)

\* a variant: a repeated rune is dropped whether it is CJK or not
DeduplicateWord_AnyRune(word) ==
    LET runes == word.Text
        skipped(j) == /\ j > 1
                      /\ runes[j] = runes[j - 1]
                      /\ LooksOverprinted(word)
        deduplicated == ConcatAll([j \in DOMAIN runes |->
                            IF skipped(j) THEN <<>> ELSE <<runes[j]>>])
    IN  IF ~containsCJK(runes) THEN word
        ELSE IF Len(runes) <= 1 THEN word
        ELSE [word EXCEPT !.Text = deduplicated]

\* the loop body of deduplicateCJKChars for one word
DeduplicateWord(word) ==
    LET runes == word.Text
        skipped(j) == /\ j > 1
                      /\ runes[j] = runes[j - 1] /\ isCJK(runes[j])
                      /\ LooksOverprinted(word)
        deduplicated == ConcatAll([j \in DOMAIN runes |->
                            IF skipped(j) THEN <<>> ELSE <<runes[j]>>])
    IN  IF ~containsCJK(runes) THEN word
        ELSE IF Len(runes) <= 1 THEN word
        ELSE [word EXCEPT !.Text = deduplicated]

deduplicateCJKChars(words) == [i \in DOMAIN words |-> DeduplicateWord(words[i])]

\* the runes a text is made of: two ideographs, "a", and the ligatures
\* U+FB01 and U+FB03
TextRunes == {24494, 36719, 97, 64257, 64259}

\* a 10-point word is 12 or 28 points wide
TextWidths == {12, 28}

\* mergeCloseWords hands over a word of no runes yet, 12 or 28 points wide
NewTextWord ==
    /\ txtPc = "input"
    /\ txtWords = <<>>
    /\ \E w \in TextWidths : txtWords' = <<LineWord(<<>>, 0, 100, w, 110, 10, 0)>>
    /\ UNCHANGED <<txtExpanded, txtDedup, txtPc>>
    /\ UNCHANGED nonTextVars

\* the word has one more rune
AppendRune ==
    /\ txtPc = "input"
    /\ Len(txtWords) = 1
    /\ Len(txtWords[1].Text) < MaxRunes
    /\ \E r \in TextRunes :
          txtWords' = [txtWords EXCEPT ![1].Text = Append(@, r)]
    /\ UNCHANGED <<txtExpanded, txtDedup, txtPc>>
    /\ UNCHANGED nonTextVars

\* "words = expandLigatures(words)"
CallExpandLigatures ==
    /\ txtPc = "input"
    /\ Len(txtWords) = 1 /\ Len(txtWords[1].Text) > 0
    /\ txtExpanded' = expandLigatures(txtWords)
    /\ txtPc' = "expanded"
    /\ UNCHANGED <<txtWords, txtDedup>>
    /\ UNCHANGED nonTextVars

\* "words = deduplicateCJKChars(words)"
CallDeduplicateCJKChars ==
    /\ txtPc = "expanded"
    /\ txtDedup' = deduplicateCJKChars(txtExpanded)
    /\ txtPc' = "deduplicated"
    /\ UNCHANGED <<txtWords, txtExpanded>>
    /\ UNCHANGED nonTextVars

TextNext ==
    \/ NewTextWord
    \/ AppendRune
    \/ CallExpandLigatures
    \/ CallDeduplicateCJKChars

TextInit == ConvInit /\ config = DefaultConfig /\ OtherIdle

SpecText == TextInit /\ [][TextNext]_vars

\* the runes of text at the places of idx, in order
Subsequence(text, idx) ==
    LET places == SortInts(idx) IN [k \in DOMAIN places |-> text[places[k]]]

\* C17: in a word that contains a CJK ideograph and whose width divided by
\* its glyph count is below 0.7 times its font size, every CJK glyph equal to
\* the glyph immediately before it is deleted and no other glyph is removed
\* or changed; a word at or above that ratio, or without any CJK glyph, keeps
\* its text unchanged.
C17_OnlyRepeatedCJKDeleted ==
    txtPc = "deduplicated" =>
        \A i \in DOMAIN txtExpanded :
            LET w == txtExpanded[i]
                d == txtDedup[i]
                narrow == /\ \E k \in DOMAIN w.Text : isCJK(w.Text[k])
                          /\ 10 * (w.Box.X1 - w.Box.X0) < 7 * w.FontSize * Len(w.Text)
                deleted == {j \in DOMAIN w.Text :
                               /\ narrow
                               /\ j > 1
                               /\ isCJK(w.Text[j])
                               /\ w.Text[j] = w.Text[j - 1]}
            IN  /\ d.Text = Subsequence(w.Text, DOMAIN w.Text \ deleted)
                /\ [d EXCEPT !.Text = w.Text] = w

\* a narrow word lost a repeated ideograph and kept its repeated "a"
C17_Witness ==
    /\ txtPc = "deduplicated"
    /\ Len(txtDedup[1].Text) < Len(txtExpanded[1].Text)
    /\ \E j \in DOMAIN txtExpanded[1].Text :
          j > 1 /\ txtExpanded[1].Text[j] = 97 /\ txtExpanded[1].Text[j - 1] = 97
    /\ \E j \in DOMAIN txtDedup[1].Text :
          j > 1 /\ txtDedup[1].Text[j] = 97 /\ txtDedup[1].Text[j - 1] = 97

\* C18: expandLigatures replaces each ligature scalar U+FB00..U+FB06 in a
\* word's text by its component letters (ff, fi, fl, ffi, ffl, ft, st), keeps
\* every other character in place and in order, and leaves the word's Rect
\* and all its other fields unchanged.
C18_LigaturesExpandedInPlace ==
    txtPc # "input" =>
        \A i \in DOMAIN txtWords :
            LET w == txtWords[i]
                e == txtExpanded[i]
                letters == << <<102, 102>>, <<102, 105>>, <<102, 108>>,
                              <<102, 102, 105>>, <<102, 102, 108>>,
                              <<102, 116>>, <<115, 116>> >>
                piece(r) == IF r >= 64256 /\ r <= 64262
                            THEN letters[r - 64255] ELSE <<r>>
            IN  /\ e.Text = ConcatAll([k \in DOMAIN w.Text |-> piece(w.Text[k])])
                /\ e.Box = w.Box
                /\ [e EXCEPT !.Text = w.Text] = w

\* a word with U+FB03 between other runes was expanded
C18_Witness ==
    /\ txtPc = "expanded"
    /\ Len(txtWords[1].Text) = 3
    /\ txtWords[1].Text[1] = 97
    /\ txtWords[1].Text[2] = 64259
    /\ txtWords[1].Text[3] = 24494
    /\ txtExpanded[1].Text = <<97, 102, 102, 105, 24494>>

(***************************************************************************)
(* cellsToTables (table_extract.go).  A Point is <<x, y>>, currentCorners  *)
(* the set of the points mapped to true.                                   *)
(***************************************************************************)
MaxCells == 4

CornersOf(cell) ==
    {<<cell.X0, cell.Top>>, <<cell.X0, cell.Bottom>>,
     <<cell.X1, cell.Top>>, <<cell.X1, cell.Bottom>>}

\* a variant: a cell joins the table only when two of its corners are known
SharesCorner_TwoCorners(cell, currentCorners) ==
    Cardinality(CornersOf(cell) \cap currentCorners) > 1

\* "shareCount > 0"
SharesCorner(cell, currentCorners) ==
    Cardinality(CornersOf(cell) \cap currentCorners) > 0

RemoveAt(seq, i) == SubSeq(seq, 1, i - 1) \o SubSeq(seq, i + 1, Len(seq))

\* "for i := 0; i < len(remaining); i++": the state after the pass that
\* starts at place i (counted from 1)
RECURSIVE TablePass(_, _, _, _)
TablePass(remaining, i, currentTable, currentCorners) ==
    IF i > Len(remaining)
    THEN [remaining |-> remaining, currentTable |-> currentTable,
          currentCorners |-> currentCorners]
    ELSE LET cell == remaining[i]
         IN  IF Len(currentTable) = 0 \/ SharesCorner(cell, currentCorners)
             THEN TablePass(RemoveAt(remaining, i), i, Append(currentTable, cell),
                            currentCorners \cup CornersOf(cell))
             ELSE TablePass(remaining, i + 1, currentTable, currentCorners)

\* "for len(remaining) > 0" and the final append
RECURSIVE TablesLoop(_, _, _, _)
TablesLoop(remaining, tables, currentTable, currentCorners) ==
    IF Len(remaining) = 0
    THEN IF Len(currentTable) > 1 THEN Append(tables, currentTable) ELSE tables
    ELSE LET initialSize == Len(currentTable)
             pass == TablePass(remaining, 1, currentTable, currentCorners)
         IN  IF Len(pass.currentTable) = initialSize
             THEN TablesLoop(pass.remaining,
                             IF Len(pass.currentTable) > 1
                             THEN Append(tables, pass.currentTable) ELSE tables,
                             <<>>, {})
             ELSE TablesLoop(pass.remaining, tables, pass.currentTable,
                             pass.currentCorners)

cellsToTables(cells) ==
    IF Len(cells) = 0 THEN <<>> ELSE TablesLoop(cells, <<>>, <<>>, {})

UnitCell(x, y) == [X0 |-> x, Top |-> y, X1 |-> x + 1, Bottom |-> y + 1]

\* a row of cells at x = 0, 1, 2, a pair at x = 4, 5, a single cell at x = 7,
\* and a cell one row down that touches the cells at 2 and 4 by a corner only
CellPool ==
    {UnitCell(0, 0), UnitCell(1, 0), UnitCell(2, 0), UnitCell(4, 0), UnitCell(5, 0),
     UnitCell(7, 0), UnitCell(3, 1)}

\* findCells reports one more cell
AddCell ==
    /\ ctPc = "input"
    /\ Len(ctCells) < MaxCells
    /\ \E c \in CellPool :
          /\ \A i \in DOMAIN ctCells : ctCells[i] # c
          /\ ctCells' = Append(ctCells, c)
    /\ UNCHANGED <<ctTables, ctPc>>
    /\ UNCHANGED nonCellVars

\* "tableCellGroups := cellsToTables(cells)"
CallCellsToTables ==
    /\ ctPc = "input"
    /\ ctTables' = cellsToTables(ctCells)
    /\ ctPc' = "done"
    /\ UNCHANGED ctCells
    /\ UNCHANGED nonCellVars

CellNext ==
    \/ AddCell
    \/ CallCellsToTables

CellInit == ConvInit /\ config = DefaultConfig /\ OtherIdle

SpecCells == CellInit /\ [][CellNext]_vars

\* the places <<t, k>> of the returned tables that hold cell c
PlacesOf(c) ==
    {tk \in UNION {{<<t, k>> : k \in DOMAIN ctTables[t]} : t \in DOMAIN ctTables} :
        ctTables[tk[1]][tk[2]] = c}

\* the input cells a chain of corner-sharing cells links to the cells of S
RECURSIVE LinkedTo(_)
LinkedTo(S) ==
    LET more == {ctCells[i] : i \in {j \in DOMAIN ctCells :
                    \E c \in S : CornersOf(ctCells[j]) \cap CornersOf(c) # {}}}
    IN  IF more \subseteq S THEN S ELSE LinkedTo(S \cup more)

\* C19: cellsToTables puts two cells in the same table exactly when they are
\* linked by a chain of cells in which consecutive cells share at least one
\* corner point; each input cell appears in at most one returned table, and
\* every returned table has at least 2 cells (a cell sharing no corner with
\* any other cell appears in no table).
C19_TablesAreCornerComponents ==
    ctPc = "done" =>
        /\ \A i \in DOMAIN ctCells : Cardinality(PlacesOf(ctCells[i])) <= 1
        /\ \A t \in DOMAIN ctTables :
              /\ Len(ctTables[t]) >= 2
              /\ \A k \in DOMAIN ctTables[t] :
                    \E i \in DOMAIN ctCells : ctCells[i] = ctTables[t][k]
        /\ \A i, j \in DOMAIN ctCells :
              i # j =>
                 ((\E a \in PlacesOf(ctCells[i]), b \in PlacesOf(ctCells[j]) : a[1] = b[1])
                    <=> ctCells[j] \in LinkedTo({ctCells[i]}))
        /\ \A i \in DOMAIN ctCells :
              LinkedTo({ctCells[i]}) = {ctCells[i]} => PlacesOf(ctCells[i]) = {}

\* two tables and a lone cell: the row 0, 2, 1 is closed in a second pass
\* over the remaining cells, the cell at 7 is in no table
C19_Witness ==
    /\ ctPc = "done"
    /\ Len(ctCells) = 4
    /\ ctCells[1] = UnitCell(0, 0) /\ ctCells[2] = UnitCell(2, 0)
    /\ ctCells[3] = UnitCell(7, 0) /\ ctCells[4] = UnitCell(1, 0)
    /\ ctTables = << <<UnitCell(0, 0), UnitCell(1, 0), UnitCell(2, 0)>> >>

(***************************************************************************)
(* groupCharsIntoWords and the word-boundary detectors (extract.go).       *)
(* A char's Text is its rune, its Angle is kept in whole degrees; boundary *)
(* indices count from 0 as in the source, sequences from 1.                *)
(***************************************************************************)
MaxStream == 4

isLowerCase(r) == r >= 97 /\ r <= 122
isUpperCase(r) == r >= 65 /\ r <= 90
isDigit(r) == r >= 48 /\ r <= 57
isAlpha(r) == (r >= 97 /\ r <= 122) \/ (r >= 65 /\ r <= 90)
isCurrency(r) == r \in {36, 8364, 163, 165, 162}
isPunctuation(r) == r \in {46, 44, 59, 58, 33, 63}
IsWhitespaceRune(r) == r \in {32, 9, 10, 13}

\* the indices i in 1..len(chars)-1 for which the loop body appends i
detectWordBoundaries(cs) ==
    IF Len(cs) <= 1 THEN <<>>
    ELSE SortInts({i \in 1..(Len(cs) - 1) :
            LET prev == cs[i]
                curr == cs[i + 1]
            IN  \/ IsWhitespaceRune(curr.Text)
                \/ isCurrency(curr.Text) \/ isPunctuation(curr.Text)
                \/ isCurrency(prev.Text) \/ isPunctuation(prev.Text)})

\* degrees normalised to 0..359
NormalizedDegrees(angle) == angle % 360

isRotatedText(angle) ==
    LET degrees == NormalizedDegrees(angle)
    IN  ~(degrees < 10 \/ degrees > 350 \/ (degrees > 170 /\ degrees < 190))

shouldReverseCharOrder(angle) ==
    LET degrees == NormalizedDegrees(angle)
    IN  degrees > 225 /\ degrees < 315

\* "gapY > avgCharHeight*0.3" with avgCharHeight > 0, for the sum of heights
GapExceeds(prev, curr, totalHeight, n) ==
    /\ totalHeight > 0
    /\ 10 * Abs(curr.Box.Y0 - prev.Box.Y1) * n > 3 * totalHeight

detectWordBoundariesRotationAware(cs) ==
    IF Len(cs) <= 1 THEN <<>>
    ELSE IF isRotatedText(cs[1].Angle)
    THEN LET totalHeight == SumSeq([k \in DOMAIN cs |-> Height(cs[k].Box)])
         IN  SortInts({i \in 1..(Len(cs) - 1) :
                LET prev == cs[i]
                    curr == cs[i + 1]
                IN  \/ GapExceeds(prev, curr, totalHeight, Len(cs))
                    \/ IsWhitespaceRune(curr.Text)
                    \/ (isLowerCase(prev.Text) /\ isUpperCase(curr.Text))
                    \/ (isDigit(prev.Text) /\ isAlpha(curr.Text))
                    \/ (isAlpha(prev.Text) /\ isDigit(curr.Text))})
    ELSE detectWordBoundaries(cs)

Reversed(seq) == [k \in DOMAIN seq |-> seq[Len(seq) + 1 - k]]

\* the loop "for i, char := range chars" from place k on: words so far, the
\* chars and the box of the word being built
RECURSIVE WordsFrom(_, _, _, _, _)
WordsFrom(cs, boundarySet, k, words, acc) ==
    IF k > Len(cs) THEN words
    ELSE LET char == cs[k]
             isWhitespace == IsWhitespaceRune(char.Text)
             isBoundary == (k - 1) \in boundarySet
             cut == isBoundary /\ ~isWhitespace /\ Len(acc.chars) > 0
             words1 == IF cut THEN Append(words, acc) ELSE words
             acc1 == IF cut THEN [chars |-> <<>>, box |-> NoRect] ELSE acc
             acc2 == IF isWhitespace THEN acc1
                     ELSE [chars |-> Append(acc1.chars, char),
                           box |-> IF acc1.chars = <<>> THEN char.Box
                                   ELSE mergeRects(acc1.box, char.Box)]
             close == (isWhitespace \/ k = Len(cs)) /\ Len(acc2.chars) > 0
         IN  WordsFrom(cs, boundarySet, k + 1,
                       IF close THEN Append(words1, acc2) ELSE words1,
                       IF close THEN [chars |-> <<>>, box |-> NoRect] ELSE acc2)

groupCharsIntoWords(cs) ==
    IF Len(cs) = 0 THEN <<>>
    ELSE LET boundaries == detectWordBoundariesRotationAware(cs)
             shouldReverse == shouldReverseCharOrder(cs[1].Angle)
             stream == IF shouldReverse THEN Reversed(cs) ELSE cs
             boundarySet == IF shouldReverse
                            THEN {Len(cs) - boundaries[b] : b \in DOMAIN boundaries}
                            ELSE {boundaries[b] : b \in DOMAIN boundaries}
         IN  WordsFrom(stream, boundarySet, 1, <<>>, [chars |-> <<>>, box |-> NoRect])

\* the glyphs a page may hold at stream place k (from 0): horizontal "a", "B",
\* "1" and " " on one text line, and rotated "x", "Y" (90 degrees) and "z"
\* (270 degrees) stacked in one vertical run
StreamChar(text, angle, k) ==
    [Text |-> text, Angle |-> angle,
     Box |-> IF isRotatedText(angle)
             THEN [X0 |-> 300, Y0 |-> 200 + 10 * k, X1 |-> 310, Y1 |-> 208 + 10 * k]
             ELSE [X0 |-> 10 * k, Y0 |-> 100, X1 |-> 10 * k + 8, Y1 |-> 110]]

StreamKinds ==
    { <<97, 0>>, <<66, 0>>, <<49, 0>>, <<32, 0>>,
      <<120, 90>>, <<89, 90>>, <<122, 270>> }

\* the engine reports one more glyph of the page
AddStreamChar ==
    /\ wbPc = "input"
    /\ Len(wbChars) < MaxStream
    /\ \E kind \in StreamKinds :
         wbChars' = Append(wbChars, StreamChar(kind[1], kind[2], Len(wbChars)))
    /\ UNCHANGED <<wbBoundaries, wbWords, wbPc>>
    /\ UNCHANGED nonWbVars

\* words := groupCharsIntoWords(chars)
CallGroupCharsIntoWords ==
    /\ wbPc = "input"
    /\ wbBoundaries' = detectWordBoundariesRotationAware(wbChars)
    /\ wbWords' = groupCharsIntoWords(wbChars)
    /\ wbPc' = "done"
    /\ UNCHANGED wbChars
    /\ UNCHANGED nonWbVars

WbNext == AddStreamChar \/ CallGroupCharsIntoWords

WbInit == ConvInit /\ config = DefaultConfig /\ OtherIdle

SpecWords == WbInit /\ [][WbNext]_vars

\* prev -> curr is lowercase->uppercase, digit->letter or letter->digit
CaseOrDigitTransition(prev, curr) ==
    \/ (isLowerCase(prev.Text) /\ isUpperCase(curr.Text))
    \/ (isDigit(prev.Text) /\ isAlpha(curr.Text))
    \/ (isAlpha(prev.Text) /\ isDigit(curr.Text))

\* chars a and b are handed to aggregateWord in one call
InOneWord(a, b) ==
    \E w \in DOMAIN wbWords :
        /\ \E k \in DOMAIN wbWords[w].chars : wbWords[w].chars[k] = a
        /\ \E k \in DOMAIN wbWords[w].chars : wbWords[w].chars[k] = b

\* C20: a run of horizontal glyphs is never split at a lowercase->uppercase,
\* digit->letter or letter->digit transition, wherever the run stands in the
\* page's glyph stream: two neighbouring horizontal glyphs with such a
\* transition get no word boundary between them and stay in one word (the
\* boundaries at these transitions go between rotated glyphs only).
C20_TransitionSplitsOnlyRotated ==
    wbPc = "done" =>
        \A i \in 1..(Len(wbChars) - 1) :
            ( /\ CaseOrDigitTransition(wbChars[i], wbChars[i + 1])
              /\ ~isRotatedText(wbChars[i].Angle)
              /\ ~isRotatedText(wbChars[i + 1].Angle) ) =>
                /\ ~(\E b \in DOMAIN wbBoundaries : wbBoundaries[b] = i)
                /\ InOneWord(wbChars[i], wbChars[i + 1])

(***************************************************************************)
(* groupLinesIntoParagraphsAdaptive (structure.go).  Quotients of floats   *)
(* are kept as fractions <<numerator, denominator>> with a positive        *)
(* denominator, reduced to lowest terms; a comparison with a standard      *)
(* deviation compares the squares.                                         *)
(***************************************************************************)
RECURSIVE GCD(_, _)
GCD(a, b) == IF b = 0 THEN a ELSE GCD(b, a % b)

Frac(n, d) ==
    LET g == GCD(Abs(n), d)
    IN  IF g = 0 THEN <<0, 1>> ELSE <<n \div g, d \div g>>

FracLess(a, b) == a[1] * b[2] < b[1] * a[2]
FracAdd(a, b) == Frac(a[1] * b[2] + b[1] * a[2], a[2] * b[2])
FracSub(a, b) == Frac(a[1] * b[2] - b[1] * a[2], a[2] * b[2])
FracMul(a, b) == Frac(a[1] * b[1], a[2] * b[2])
FracHalf(a) == Frac(a[1], 2 * a[2])

\* the "less" of sort.Float64s on fractions
RECURSIVE FracSiftDown(_, _)
FracSiftDown(data, j) ==
    IF j > 1 /\ FracLess(data[j], data[j - 1])
    THEN FracSiftDown([data EXCEPT ![j] = data[j - 1], ![j - 1] = data[j]], j - 1)
    ELSE data

RECURSIVE FracSortFrom(_, _)
FracSortFrom(data, i) ==
    IF i > Len(data) THEN data ELSE FracSortFrom(FracSiftDown(data, i), i + 1)

calculateMedian(values) ==
    IF Len(values) = 0 THEN <<0, 1>>
    ELSE LET sorted == FracSortFrom(values, 2)
             mid == Len(sorted) \div 2
         IN  IF Len(sorted) % 2 = 0
             THEN FracHalf(FracAdd(sorted[mid], sorted[mid + 1]))
             ELSE sorted[mid + 1]

\* the square of calculateStdDev of whole-number values
VarianceOf(values) ==
    IF Len(values) = 0 THEN <<0, 1>>
    ELSE LET k == Len(values)
             sum == SumSeq(values)
         IN  Frac(SumSeq([i \in DOMAIN values |-> (k * values[i] - sum) * (k * values[i] - sum)]),
                  k * k * k)

getLineFontSize(line) ==
    IF Len(line.Words) = 0 THEN <<12, 1>>
    ELSE Frac(SumSeq([k \in DOMAIN line.Words |-> line.Words[k].FontSize]), Len(line.Words))

getAverageFontSize(lines) ==
    LET total == SumSeq([i \in DOMAIN lines |->
                            SumSeq([k \in DOMAIN lines[i].Words |-> lines[i].Words[k].FontSize])])
        count == SumSeq([i \in DOMAIN lines |-> Len(lines[i].Words)])
    IN  IF count = 0 THEN <<12, 1>> ELSE Frac(total, count)

\* "medianGap + 1.5*stdDev < q * medianFontSize" for a fraction q
\* (stdDev >= 0, medianFontSize > 0)
SpreadBelow(medianGap, variance, medianFontSize, q) ==
    LET d == FracSub(FracMul(q, medianFontSize), medianGap)
    IN  d[1] > 0 /\ 9 * variance[1] * d[2] * d[2] < 4 * d[1] * d[1] * variance[2]

\* "medianGap + 1.5*stdDev > q * medianFontSize"
SpreadAbove(medianGap, variance, medianFontSize, q) ==
    LET d == FracSub(FracMul(q, medianFontSize), medianGap)
    IN  d[1] < 0 \/ 9 * variance[1] * d[2] * d[2] > 4 * d[1] * d[1] * variance[2]

\* "normalizedGap > threshold" for threshold := calculateDynamicThreshold(lines)
ExceedsDynamicThreshold(normalizedGap, lines) ==
    IF Len(lines) < 3 THEN FracLess(<<9, 10>>, normalizedGap)
    ELSE LET gaps == [i \in 1..(Len(lines) - 1) |-> lines[i + 1].Box.Y0 - lines[i].Box.Y1]
             fontSizes == [i \in 1..(Len(lines) - 1) |-> getLineFontSize(lines[i])]
             medianGap == calculateMedian([i \in DOMAIN gaps |-> <<gaps[i], 1>>])
             variance == VarianceOf(gaps)
             median == calculateMedian(fontSizes)
             medianFontSize == IF median[1] = 0 THEN <<12, 1>> ELSE median
         IN  IF SpreadBelow(medianGap, variance, medianFontSize, <<6, 10>>)
             THEN FracLess(<<6, 10>>, normalizedGap)
             ELSE IF SpreadAbove(medianGap, variance, medianFontSize, <<15, 10>>)
             THEN FracLess(<<15, 10>>, normalizedGap)
             ELSE SpreadBelow(medianGap, variance, medianFontSize, normalizedGap)

\* Paragraph{Lines, Box, Indent}
NewParagraph(currentPara, paraBox) ==
    [Lines |-> currentPara, Box |-> paraBox, Indent |-> currentPara[1].Box.X0]

\* the test that ends the current paragraph before "line"
StartsParagraph(currentPara, prevLineBottom, line, lines) ==
    LET lineGap == line.Box.Y0 - prevLineBottom
        avgFontSize == getAverageFontSize(currentPara)
        currentLineFontSize == getLineFontSize(line)
        \* fontSizeRatio := currentLineFontSize / avgFontSize
        ratioNum == currentLineFontSize[1] * avgFontSize[2]
        ratioDen == currentLineFontSize[2] * avgFontSize[1]
        significantFontChange == 10 * ratioNum < 8 * ratioDen \/ 10 * ratioNum > 12 * ratioDen
        normalizedGap == Frac(lineGap * avgFontSize[2], avgFontSize[1])
    IN  ExceedsDynamicThreshold(normalizedGap, lines) \/ significantFontChange

\* the loop "for i, line := range lines" from line i on
RECURSIVE ParagraphsFrom(_, _, _, _, _, _)
ParagraphsFrom(lines, i, paragraphs, currentPara, paraBox, prevLineBottom) ==
    IF i > Len(lines) THEN Append(paragraphs, NewParagraph(currentPara, paraBox))
    ELSE LET line == lines[i]
         IN  IF StartsParagraph(currentPara, prevLineBottom, line, lines)
             THEN ParagraphsFrom(lines, i + 1,
                                 Append(paragraphs, NewParagraph(currentPara, paraBox)),
                                 <<line>>, line.Box, line.Box.Y1)
             ELSE ParagraphsFrom(lines, i + 1, paragraphs, Append(currentPara, line),
                                 [paraBox EXCEPT !.Y1 = line.Box.Y1,
                                                 !.X0 = Min2(paraBox.X0, line.Box.X0),
                                                 !.X1 = Max2(paraBox.X1, line.Box.X1)],
                                 line.Box.Y1)

groupLinesIntoParagraphsAdaptive(lines) ==
    IF Len(lines) = 0 THEN <<>>
    ELSE ParagraphsFrom(lines, 2, <<>>, <<lines[1]>>, lines[1].Box, lines[1].Box.Y1)

(***************************************************************************)
(* buildParagraphs (structure.go) with detectColumns (columns.go) computed *)
(* from the words.  The X coordinates of the words are even numbers, so    *)
(* the centre of a valley is a whole number of points.                     *)
(***************************************************************************)
MaxRuns == 3

BpPageWidth == 200

\* bins[bin]++ for startBin <= bin < endBin, bin < numBins
BinCount(words, bin) ==
    Cardinality({k \in DOMAIN words : words[k].Box.X0 <= bin /\ bin < words[k].Box.X1})

\* the sum of bins[lo..hi]
RECURSIVE SumRange(_, _, _)
SumRange(bins, lo, hi) ==
    IF lo > hi THEN 0
    ELSE IF lo = hi THEN bins[lo]
    ELSE LET mid == (lo + hi) \div 2
         IN  SumRange(bins, lo, mid) + SumRange(bins, mid + 1, hi)

\* findSignificantValleys: bins is the function bin -> count on 0..numBins-1
findSignificantValleys(bins, pageWidth) ==
    LET numBins == Cardinality(DOMAIN bins)
        sum == SumRange(bins, 0, numBins - 1)
        nonZero == Cardinality({b \in DOMAIN bins : bins[b] > 0})
        \* threshold := int(avgDensity * 0.2)
        threshold == (2 * sum) \div (10 * nonZero)
        ends == {i \in 1..(numBins - 1) : bins[i] > threshold /\ bins[i - 1] <= threshold}
        valleyStart(i) ==
            LET above == {b \in 0..(i - 1) : bins[b] > threshold}
            IN  IF above = {} THEN 0
                ELSE (CHOOSE b \in above : \A c \in above : c <= b) + 1
        centres == {(valleyStart(i) + i) \div 2 : i \in {e \in ends : e - valleyStart(e) >= 20}}
    IN  IF numBins = 0 \/ nonZero = 0 THEN <<>>
        ELSE SortInts({v \in centres : v > 50 /\ v < pageWidth - 50})

\* the ranges (numbered from 0) in which filterWordsByXRange finds a word
OccupiedRanges(words, valleys, pageWidth) ==
    {r \in 0..Len(valleys) :
        LET xStart == IF r = 0 THEN 0 ELSE valleys[r]
            xEnd == IF r = Len(valleys) THEN pageWidth ELSE valleys[r + 1]
        IN  \E k \in DOMAIN words :
                CenterX2(words[k].Box) >= 2 * xStart /\ CenterX2(words[k].Box) < 2 * xEnd}

\* detectColumns(words, pageWidth)
detectColumnsOfWords(words, pageWidth) ==
    IF Len(words) = 0 THEN <<>>
    ELSE LET bins == [b \in 0..(pageWidth - 1) |-> BinCount(words, b)]
             valleys == findSignificantValleys(bins, pageWidth)
         IN  detectColumns(valleys, pageWidth, OccupiedRanges(words, valleys, pageWidth))

\* allLines: "for _, block := range textBlocks { allLines = append(allLines, block.Lines...) }"
AllLines(blocks) == ConcatAll([bi \in DOMAIN blocks |-> blocks[bi].Lines])

\* buildParagraphs up to "paragraphs = determineReadingOrder(paragraphs, columns)";
\* the detectors that follow set flags of the paragraphs only
ParagraphsInReadingOrder(words, allLines, pageWidth) ==
    determineReadingOrder(groupLinesIntoParagraphsAdaptive(allLines),
                          detectColumnsOfWords(words, pageWidth))

\* the runs of words a page may hold, each word with a text of its own:
\* five-word lines of upright text at two heights ("H1", "H2"), a five-word
\* line turned by 180 degrees above them ("U"), five-word columns turned by
\* 90 degrees at the right ("V") and by 270 degrees at the left ("W"), one
\* stray word turned by 90 degrees ("S") and one upright word ("T")
RunKinds == {"H1", "H2", "U", "V", "W", "S", "T"}

RunWords(kind) ==
    CASE kind = "H1" -> [k \in 1..5 |-> LineWord(<<64 + k>>, 30 * k - 10, 100, 30 * k + 10, 112, 12, 0)]
      [] kind = "H2" -> [k \in 1..5 |-> LineWord(<<74 + k>>, 30 * k - 10, 116, 30 * k + 10, 128, 12, 0)]
      [] kind = "U" -> [k \in 1..5 |-> LineWord(<<84 + k>>, 30 * k - 10, 60, 30 * k + 10, 72, 12, 180)]
      [] kind = "V" -> [k \in 1..5 |-> LineWord(<<96 + k>>, 170, 30 * k - 10, 182, 30 * k + 10, 12, 90)]
      [] kind = "W" -> [k \in 1..5 |-> LineWord(<<106 + k>>, 20, 30 * k - 10, 32, 30 * k + 10, 12, 270)]
      [] kind = "S" -> <<LineWord(<<120>>, 184, 20, 196, 60, 12, 90)>>
      [] kind = "T" -> <<LineWord(<<121>>, 20, 140, 60, 152, 12, 0)>>

\* the runs whose words are on the page
RunsOnPage(words) ==
    {kind \in RunKinds : \E k \in DOMAIN words : words[k] = RunWords(kind)[1]}

\* the caller supplies one more run of the page's words
AddRun ==
    /\ bpPc = "input"
    /\ Cardinality(RunsOnPage(bpWords)) < MaxRuns
    /\ \E kind \in RunKinds \ RunsOnPage(bpWords) :
         bpWords' = bpWords \o RunWords(kind)
    /\ UNCHANGED <<bpLines, bpOut, bpPc>>
    /\ UNCHANGED nonBpVars

\* paragraphs := buildParagraphs(words, pageWidth, config)
CallBuildParagraphs ==
    /\ bpPc = "input"
    /\ IF Len(bpWords) = 0
       THEN bpLines' = <<>> /\ bpOut' = <<>>
       ELSE \E order \in MapOrders({BucketOf(bpWords[i]) : i \in DOMAIN bpWords}) :
                LET allLines == AllLines(buildTextBlocks(bpWords, order))
                IN  /\ bpLines' = allLines
                    /\ bpOut' = ParagraphsInReadingOrder(bpWords, allLines, BpPageWidth)
    /\ bpPc' = "done"
    /\ UNCHANGED bpWords
    /\ UNCHANGED nonBpVars

BpNext == AddRun \/ CallBuildParagraphs

BpInit == ConvInit /\ config = DefaultConfig /\ OtherIdle

SpecParagraphs == BpInit /\ [][BpNext]_vars

\* the word passed to buildParagraphs with which the line begins
FirstWordOf(line) ==
    CHOOSE k \in DOMAIN bpWords : bpWords[k].Text[1] = line.Words[1].Text[1]

LineIsVertical(line) == IsVertical(BucketOf(bpWords[FirstWordOf(line)]))

\* C21: in every paragraph buildParagraphs returns, of two successive lines
\* of horizontal text the second does not start above the first (Y0), and of
\* two successive lines of vertical text the second does not start left of
\* the first (X0), also on a page with more than one dominant orientation.
C21_LinesInReadingDirection ==
    bpPc = "done" =>
        \A p \in DOMAIN bpOut :
            \A k \in 1..(Len(bpOut[p].Lines) - 1) :
                LET a == bpOut[p].Lines[k]
                    b == bpOut[p].Lines[k + 1]
                IN  /\ (~LineIsVertical(a) /\ ~LineIsVertical(b)) => a.Box.Y0 <= b.Box.Y0
                    /\ (LineIsVertical(a) /\ LineIsVertical(b)) => a.Box.X0 <= b.Box.X0

\* Rect inner lies within Rect outer
RectContains(outer, inner) ==
    /\ outer.X0 <= inner.X0 /\ inner.X1 <= outer.X1
    /\ outer.Y0 <= inner.Y0 /\ inner.Y1 <= outer.Y1

\* C22: every paragraph groupLinesIntoParagraphsAdaptive produces has a Box
\* with X0 <= X1 and Y0 <= Y1 that contains the Box of each of its lines,
\* also when a line lies above the line before it.
C22_ParagraphBoxContainsLines ==
    bpPc = "done" =>
        \A p \in DOMAIN bpOut :
            /\ bpOut[p].Box.X0 <= bpOut[p].Box.X1
            /\ bpOut[p].Box.Y0 <= bpOut[p].Box.Y1
            /\ \A k \in DOMAIN bpOut[p].Lines :
                   RectContains(bpOut[p].Box, bpOut[p].Lines[k].Box)

\* the places (paragraph, line, word) of the returned paragraphs at which
\* the text of the k-th word passed to buildParagraphs appears
PlacesOfWord(k) ==
    {plw \in {<<pi, li, wi>> : pi \in DOMAIN bpOut, li \in 1..Len(bpWords), wi \in 1..Len(bpWords)} :
        /\ plw[2] \in DOMAIN bpOut[plw[1]].Lines
        /\ plw[3] \in DOMAIN bpOut[plw[1]].Lines[plw[2]].Words
        /\ bpWords[k].Text[1] \in {bpOut[plw[1]].Lines[plw[2]].Words[plw[3]].Text[n] :
                  n \in DOMAIN bpOut[plw[1]].Lines[plw[2]].Words[plw[3]].Text}}

\* C27: every word passed to buildParagraphs, whatever its rotation, appears
\* (alone or merged with close neighbours) in exactly one line of exactly one
\* returned paragraph.
C27_NoWordLost ==
    bpPc = "done" =>
        \A k \in DOMAIN bpWords : Cardinality(PlacesOfWord(k)) = 1

(***************************************************************************)
(* The loops "for { ... }" of buildSegmentsFromLine and                    *)
(* buildBlocksFromTableArea and "for len(remaining) > 0" of cellsToTables, *)
(* one iteration per step.                                                 *)
(***************************************************************************)
MaxLoopItems == 3

\* two boxes side by side, one 20 points further right, one far right, one
\* two points below the first and one that touches the first two by a corner
LoopBoxes ==
    { [X0 |-> 0, Y0 |-> 0, X1 |-> 10, Y1 |-> 10],
      [X0 |-> 10, Y0 |-> 0, X1 |-> 20, Y1 |-> 10],
      [X0 |-> 40, Y0 |-> 0, X1 |-> 50, Y1 |-> 10],
      [X0 |-> 100, Y0 |-> 0, X1 |-> 110, Y1 |-> 10],
      [X0 |-> 0, Y0 |-> 12, X1 |-> 10, Y1 |-> 22],
      [X0 |-> 10, Y0 |-> 10, X1 |-> 20, Y1 |-> 20] }

LoopWord(box) == [Text |-> <<119>>, Box |-> box]

\* "merged := Segment{...}"
MergedSegment(a, b) ==
    [Words |-> a.Words \o b.Words, Box |-> mergeRects(a.Box, b.Box)]

\* "merged := Block{...}" with the line indices sorted
MergedBlock(a, b) ==
    [Segments |-> a.Segments \o b.Segments,
     Box |-> mergeRects(a.Box, b.Box),
     LineIndices |-> SortInts({a.LineIndices[k] : k \in DOMAIN a.LineIndices}
                              \cup {b.LineIndices[k] : k \in DOMAIN b.LineIndices})]

\* the caller's line, table area or cell list grows by one box
AddLoopBox ==
    /\ lpPc = "input"
    /\ Len(lpItems) < MaxLoopItems
    /\ \E box \in LoopBoxes :
          /\ \A i \in DOMAIN lpItems : lpItems[i] # box
          /\ lpItems' = Append(lpItems, box)
    /\ UNCHANGED <<lpKind, lpClusters, lpCells, lpPc>>
    /\ UNCHANGED nonLpVars

\* buildSegmentsFromLine reaches its loop: "Start with each word as a cluster"
StartSegmentLoop ==
    /\ lpPc = "input"
    /\ Len(lpItems) > 1
    /\ lpKind' = "segments"
    /\ lpClusters' = [i \in DOMAIN lpItems |->
                        [Words |-> <<LoopWord(lpItems[i])>>, Box |-> lpItems[i]]]
    /\ lpPc' = "loop"
    /\ UNCHANGED <<lpItems, lpCells>>
    /\ UNCHANGED nonLpVars

\* buildBlocksFromTableArea reaches its loop: "Start with each segment as a
\* cluster", the segments of an area with one segment per line
StartBlockLoop ==
    /\ lpPc = "input"
    /\ Len(lpItems) > 0
    /\ lpKind' = "blocks"
    /\ lpClusters' = [i \in DOMAIN lpItems |->
                        [Segments |-> <<[Words |-> <<LoopWord(lpItems[i])>>,
                                         Box |-> lpItems[i]]>>,
                         Box |-> lpItems[i], LineIndices |-> <<i>>]]
    /\ lpPc' = "loop"
    /\ UNCHANGED <<lpItems, lpCells>>
    /\ UNCHANGED nonLpVars

\* cellsToTables reaches its loop
StartCellLoop ==
    /\ lpPc = "input"
    /\ Len(lpItems) > 0
    /\ lpKind' = "cells"
    /\ lpCells' = [remaining |-> [i \in DOMAIN lpItems |->
                                    [X0 |-> lpItems[i].X0, Top |-> lpItems[i].Y0,
                                     X1 |-> lpItems[i].X1, Bottom |-> lpItems[i].Y1]],
                   tables |-> <<>>, currentTable |-> <<>>, currentCorners |-> {}]
    /\ lpPc' = "loop"
    /\ UNCHANGED <<lpItems, lpClusters>>
    /\ UNCHANGED nonLpVars

\* one iteration of "for { ... }": break, or merge the closest pair
MergeIteration ==
    /\ lpPc = "loop"
    /\ lpKind \in {"segments", "blocks"}
    /\ LET m == IF lpKind = "segments" THEN ClosestPair(lpClusters, SegmentDist)
                ELSE ClosestPair(lpClusters, BlockDist)
           limit == IF lpKind = "segments" THEN HorizontalThreshold ELSE VerticalThreshold
       IN  IF m[3] > limit \/ m[1] = 0
           THEN lpPc' = "done" /\ UNCHANGED lpClusters
           ELSE /\ lpClusters' =
                      ReplacePair(lpClusters, m[1], m[2],
                          IF lpKind = "segments"
                          THEN MergedSegment(lpClusters[m[1]], lpClusters[m[2]])
                          ELSE MergedBlock(lpClusters[m[1]], lpClusters[m[2]]))
                /\ UNCHANGED lpPc
    /\ UNCHANGED <<lpItems, lpKind, lpCells>>
    /\ UNCHANGED nonLpVars

\* one iteration of "for len(remaining) > 0", or the exit with "Add final table"
CellIteration ==
    /\ lpPc = "loop"
    /\ lpKind = "cells"
    /\ IF Len(lpCells.remaining) = 0
       THEN /\ lpCells' = [lpCells EXCEPT !.tables =
                              IF Len(lpCells.currentTable) > 1
                              THEN Append(@, lpCells.currentTable) ELSE @]
            /\ lpPc' = "done"
       ELSE LET initialSize == Len(lpCells.currentTable)
                pass == TablePass(lpCells.remaining, 1, lpCells.currentTable,
                                  lpCells.currentCorners)
            IN  /\ lpCells' =
                      IF Len(pass.currentTable) = initialSize
                      THEN [remaining |-> pass.remaining,
                            tables |-> IF Len(pass.currentTable) > 1
                                       THEN Append(lpCells.tables, pass.currentTable)
                                       ELSE lpCells.tables,
                            currentTable |-> <<>>, currentCorners |-> {}]
                      ELSE [remaining |-> pass.remaining, tables |-> lpCells.tables,
                            currentTable |-> pass.currentTable,
                            currentCorners |-> pass.currentCorners]
                /\ UNCHANGED lpPc
    /\ UNCHANGED <<lpItems, lpKind, lpClusters>>
    /\ UNCHANGED nonLpVars

LpNext ==
    \/ AddLoopBox
    \/ StartSegmentLoop
    \/ StartBlockLoop
    \/ StartCellLoop
    \/ MergeIteration
    \/ CellIteration

LpInit == ConvInit /\ config = DefaultConfig /\ OtherIdle

SpecLoops == LpInit /\ [][LpNext]_vars

\* C24: every iteration of the merge loops of buildSegmentsFromLine and
\* buildBlocksFromTableArea either leaves the loop or leaves one cluster
\* fewer, and every iteration of the outer loop of cellsToTables either
\* leaves the loop, takes at least one cell out of remaining, or closes a
\* current table that was not empty (with remaining no longer than before).
C24_IterationsMakeProgress ==
    [][ /\ MergeIteration => (lpPc' = "done" \/ Len(lpClusters') < Len(lpClusters))
        /\ CellIteration =>
              \/ lpPc' = "done"
              \/ Len(lpCells'.remaining) < Len(lpCells.remaining)
              \/ /\ Len(lpCells'.remaining) = Len(lpCells.remaining)
                 /\ lpCells.currentTable # <<>>
                 /\ lpCells'.currentTable = <<>> ]_vars

\* a merge loop has left after two merges
C24_Witness ==
    /\ lpPc = "done"
    /\ lpKind \in {"segments", "blocks"}
    /\ Len(lpClusters) + 2 = Len(lpItems)

(***************************************************************************)
(* DetectTables (table.go, table_extract.go): edges from the ruling lines  *)
(* of the page or, where the "lines" strategy finds none, from the words;  *)
(* snapping and joining; intersections; cells; tables.  Coordinates are    *)
(* whole points; a centre (x0 + x1) / 2 is kept as the sum x0 + x1.        *)
(***************************************************************************)
DefaultTableSettings ==
    [VerticalStrategy |-> "lines", HorizontalStrategy |-> "lines",
     SnapXTolerance |-> 3, SnapYTolerance |-> 3,
     JoinXTolerance |-> 3, JoinYTolerance |-> 3,
     EdgeMinLength |-> 3, MinWordsVertical |-> 3, MinWordsHorizontal |-> 1,
     IntersectionXTolerance |-> 3, IntersectionYTolerance |-> 3]

HEdge(x0, x1, top) ==
    [X0 |-> x0, X1 |-> x1, Top |-> top, Bottom |-> top,
     Width |-> x1 - x0, Height |-> 0, Orientation |-> "h"]

VEdge(x, top, bottom) ==
    [X0 |-> x, X1 |-> x, Top |-> top, Bottom |-> bottom,
     Width |-> 0, Height |-> bottom - top, Orientation |-> "v"]

MinOfSet(S) == CHOOSE x \in S : \A y \in S : x <= y
MaxOfSet(S) == CHOOSE x \in S : \A y \in S : x >= y
SeqRange(seq) == {seq[i] : i \in DOMAIN seq}

\* "for _, word := range words": the word joins the first cluster whose
\* position is less than 1.0 from its own, or starts a cluster; xs holds the
\* positions doubled, a cluster holds the indices of its words
RECURSIVE ClusterByPosition(_, _, _)
ClusterByPosition(xs, i, clusters) ==
    IF i > Len(xs) THEN clusters
    ELSE LET hits == {j \in DOMAIN clusters : Abs(clusters[j].x - xs[i]) < 2}
         IN  IF hits = {}
             THEN ClusterByPosition(xs, i + 1, Append(clusters, [x |-> xs[i], words |-> <<i>>]))
             ELSE ClusterByPosition(xs, i + 1,
                      [clusters EXCEPT ![MinOfSet(hits)].words = Append(@, i)])

LargeClusters(clusters, minWords) ==
    LET IsLarge(c) == Len(c.words) >= minWords
    IN  SelectSeq(clusters, IsLarge)

wordsToEdgesHorizontal(words, minWords) ==
    LET clusters == ClusterByPosition([i \in DOMAIN words |-> 2 * words[i].Box.Y0], 1, <<>>)
        largeClusters == LargeClusters(clusters, minWords)
        members == UNION {SeqRange(largeClusters[k].words) : k \in DOMAIN largeClusters}
        minX0 == MinOfSet({words[i].Box.X0 : i \in members})
        maxX1 == MaxOfSet({words[i].Box.X1 : i \in members})
        EdgesOf(c) ==
            LET top == c.x \div 2
                bottom == MaxOfSet({top} \cup {words[i].Box.Y1 : i \in SeqRange(c.words)})
            IN  <<HEdge(minX0, maxX1, top), HEdge(minX0, maxX1, bottom)>>
    IN  IF words = <<>> \/ largeClusters = <<>> THEN <<>>
        ELSE ConcatAll([k \in DOMAIN largeClusters |-> EdgesOf(largeClusters[k])])

\* "Remove overlapping bboxes"
RECURSIVE CondenseFrom(_, _, _)
CondenseFrom(bboxes, i, condensed) ==
    IF i > Len(bboxes) THEN condensed
    ELSE LET bb == bboxes[i]
             overlap == \E k \in DOMAIN condensed :
                            ~(\/ bb.x1 < condensed[k].x0 \/ bb.x0 > condensed[k].x1
                              \/ bb.y1 < condensed[k].y0 \/ bb.y0 > condensed[k].y1)
         IN  CondenseFrom(bboxes, i + 1, IF overlap THEN condensed ELSE Append(condensed, bb))

wordsToEdgesVertical(words, minWords) ==
    LET byX0 == ClusterByPosition([i \in DOMAIN words |-> 2 * words[i].Box.X0], 1, <<>>)
        byX1 == ClusterByPosition([i \in DOMAIN words |-> 2 * words[i].Box.X1], 1, <<>>)
        byCenter == ClusterByPosition(
                        [i \in DOMAIN words |-> words[i].Box.X0 + words[i].Box.X1], 1, <<>>)
        allClusters == SortSlice(byX0 \o byX1 \o byCenter, "clusterSize")
        largeClusters == LargeClusters(allClusters, minWords)
        BBoxOf(c) ==
            LET ws == {words[i] : i \in SeqRange(c.words)}
            IN  [x0 |-> MinOfSet({w.Box.X0 : w \in ws}), y0 |-> MinOfSet({w.Box.Y0 : w \in ws}),
                 x1 |-> MaxOfSet({w.Box.X1 : w \in ws}), y1 |-> MaxOfSet({w.Box.Y1 : w \in ws})]
        bboxes == [k \in DOMAIN largeClusters |-> BBoxOf(largeClusters[k])]
        condensed == SortSlice(CondenseFrom(bboxes, 1, <<>>), "bboxX0")
        minTop == MinOfSet({condensed[k].y0 : k \in DOMAIN condensed})
        maxBottom == MaxOfSet({condensed[k].y1 : k \in DOMAIN condensed})
        maxX1 == MaxOfSet({condensed[k].x1 : k \in DOMAIN condensed})
    IN  IF words = <<>> \/ largeClusters = <<>> THEN <<>>
        ELSE [k \in DOMAIN condensed |-> VEdge(condensed[k].x0, minTop, maxBottom)]
                 \o <<VEdge(maxX1, minTop, maxBottom)>>

\* snapObjects, the clusters: an edge joins the first cluster whose mean is
\* within the tolerance of its position, and the mean is taken again; a
\* cluster holds the sum of its positions and the indices of its edges
RECURSIVE SnapClusters(_, _, _, _)
SnapClusters(vals, i, clusters, tolerance) ==
    IF i > Len(vals) THEN clusters
    ELSE LET hits == {j \in DOMAIN clusters :
                         Abs(clusters[j].sum - Len(clusters[j].edges) * vals[i])
                             <= tolerance * Len(clusters[j].edges)}
         IN  IF hits = {}
             THEN SnapClusters(vals, i + 1,
                      Append(clusters, [sum |-> vals[i], edges |-> <<i>>]), tolerance)
             ELSE SnapClusters(vals, i + 1,
                      [clusters EXCEPT ![MinOfSet(hits)] =
                          [sum |-> @.sum + vals[i], edges |-> Append(@.edges, i)]],
                      tolerance)

\* the mean of a cluster; on the pages drawn below the edges of one cluster
\* lie at one position, so that the quotient is exact
SnapValue(c) == c.sum \div Len(c.edges)

snapObjects(edges, dimension, tolerance) ==
    LET vals == [i \in DOMAIN edges |-> IF dimension = "x0" THEN edges[i].X0 ELSE edges[i].Top]
        clusters == SnapClusters(vals, 1, <<>>, tolerance)
        ClusterOf(i) == CHOOSE j \in DOMAIN clusters : i \in SeqRange(clusters[j].edges)
    IN  [i \in DOMAIN edges |->
            LET value == SnapValue(clusters[ClusterOf(i)])
            IN  IF dimension = "x0"
                THEN [edges[i] EXCEPT !.X0 = value, !.X1 = @ + (value - edges[i].X0)]
                ELSE [edges[i] EXCEPT !.Top = value, !.Bottom = @ + (value - edges[i].Top)]]

IsV(e) == e.Orientation = "v"
IsH(e) == e.Orientation # "v"

snapEdges(edges, xTol, yTol) ==
    snapObjects(SelectSeq(edges, IsV), "x0", xTol) \o snapObjects(SelectSeq(edges, IsH), "top", yTol)

\* "for i := 1; i < len(edges); i++": the edge extends the last joined edge or
\* is added as a separate edge
RECURSIVE JoinFrom(_, _, _, _, _)
JoinFrom(edges, i, joined, orientation, tolerance) ==
    IF i > Len(edges) THEN joined
    ELSE LET last == joined[Len(joined)]
             current == edges[i]
             getMin(e) == IF orientation = "h" THEN e.X0 ELSE e.Top
             getMax(e) == IF orientation = "h" THEN e.X1 ELSE e.Bottom
         IN  IF getMin(current) <= getMax(last) + tolerance
             THEN IF getMax(current) > getMax(last)
                  THEN JoinFrom(edges, i + 1,
                           [joined EXCEPT ![Len(joined)] =
                               IF orientation = "h"
                               THEN [last EXCEPT !.X1 = current.X1, !.Width = current.X1 - last.X0]
                               ELSE [last EXCEPT !.Bottom = current.Bottom,
                                                 !.Height = current.Bottom - last.Top]],
                           orientation, tolerance)
                  ELSE JoinFrom(edges, i + 1, joined, orientation, tolerance)
             ELSE JoinFrom(edges, i + 1, Append(joined, current), orientation, tolerance)

joinEdgeGroup(edges, orientation, settings) ==
    IF edges = <<>> THEN edges
    ELSE LET tolerance == IF orientation = "h" THEN settings.JoinXTolerance
                                               ELSE settings.JoinYTolerance
             sorted == SortSlice(edges, IF orientation = "h" THEN "X0" ELSE "Top")
         IN  JoinFrom(sorted, 2, <<sorted[1]>>, orientation, tolerance)

\* the groups are visited in the order of a map; what follows takes the
\* edges as a set, so the groups are taken here by ascending position, the
\* horizontal ones first
mergeEdges(edges, settings) ==
    LET snapped == IF settings.SnapXTolerance > 0 \/ settings.SnapYTolerance > 0
                   THEN snapEdges(edges, settings.SnapXTolerance, settings.SnapYTolerance)
                   ELSE edges
        PositionOf(e) == IF e.Orientation = "h" THEN e.Top ELSE e.X0
        Group(orientation, position) ==
            LET InGroup(e) == e.Orientation = orientation /\ PositionOf(e) = position
            IN  SelectSeq(snapped, InGroup)
        Keys(orientation) ==
            SortInts({PositionOf(snapped[i]) : i \in {j \in DOMAIN snapped :
                                                         snapped[j].Orientation = orientation}})
        Joined(orientation) ==
            ConcatAll([k \in DOMAIN Keys(orientation) |->
                          joinEdgeGroup(Group(orientation, Keys(orientation)[k]),
                                        orientation, settings)])
    IN  Joined("h") \o Joined("v")

filterEdgesByLength(edges, minLength) ==
    LET LongEnough(e) == (IF e.Orientation = "v" THEN e.Height ELSE e.Width) >= minLength
    IN  IF minLength <= 0 THEN edges ELSE SelectSeq(edges, LongEnough)

\* "Check if edges intersect"
EdgesIntersect(v, h, settings) ==
    /\ v.Top <= h.Top + settings.IntersectionYTolerance
    /\ v.Bottom >= h.Top - settings.IntersectionYTolerance
    /\ v.X0 >= h.X0 - settings.IntersectionXTolerance
    /\ v.X0 <= h.X1 + settings.IntersectionXTolerance

\* the map from each intersection point to the vertical and the horizontal
\* edges that meet there
findIntersections(edges, settings) ==
    LET vEdges == {e \in SeqRange(edges) : e.Orientation = "v"}
        hEdges == {e \in SeqRange(edges) : e.Orientation # "v"}
        pairs == {pr \in vEdges \X hEdges : EdgesIntersect(pr[1], pr[2], settings)}
        points == {[X |-> pr[1].X0, Y |-> pr[2].Top] : pr \in pairs}
    IN  [pt \in points |->
            [v |-> {pr[1] : pr \in {q \in pairs : q[1].X0 = pt.X /\ q[2].Top = pt.Y}},
             h |-> {pr[2] : pr \in {q \in pairs : q[1].X0 = pt.X /\ q[2].Top = pt.Y}}]]

\* "Helper to check if two points are connected by an edge"
edgeConnects(intersections, p1, p2) ==
    \/ /\ p1.X = p2.X
       /\ \E e1 \in intersections[p1].v : \E e2 \in intersections[p2].v :
              e1.X0 = e2.X0 /\ e1.Top = e2.Top /\ e1.Bottom = e2.Bottom
    \/ /\ p1.Y = p2.Y
       /\ \E e1 \in intersections[p1].h : \E e2 \in intersections[p2].h :
              e1.Top = e2.Top /\ e1.X0 = e2.X0 /\ e1.X1 = e2.X1

RECURSIVE SeqOfSet(_)
SeqOfSet(S) ==
    IF S = {} THEN <<>>
    ELSE LET x == CHOOSE y \in S : TRUE IN <<x>> \o SeqOfSet(S \ {x})

intersectionsToCells(intersections) ==
    LET points == SortSlice(SeqOfSet(DOMAIN intersections), "point")
        CellAt(i) ==
            LET pt == points[i]
                below == {j \in DOMAIN points : j > i /\ points[j].X = pt.X /\ points[j].Y > pt.Y}
                right == {j \in DOMAIN points : j > i /\ points[j].Y = pt.Y /\ points[j].X > pt.X}
            IN  IF below = {} \/ right = {} THEN <<>>
                ELSE LET nearestBelow == points[CHOOSE j \in below :
                                                   \A k \in below : points[j].Y <= points[k].Y]
                         nearestRight == points[CHOOSE j \in right :
                                                   \A k \in right : points[j].X <= points[k].X]
                         bottomRight == [X |-> nearestRight.X, Y |-> nearestBelow.Y]
                     IN  IF /\ edgeConnects(intersections, pt, nearestBelow)
                            /\ edgeConnects(intersections, pt, nearestRight)
                            /\ bottomRight \in DOMAIN intersections
                            /\ edgeConnects(intersections, bottomRight, nearestRight)
                            /\ edgeConnects(intersections, bottomRight, nearestBelow)
                         THEN <<[X0 |-> pt.X, Top |-> pt.Y,
                                 X1 |-> bottomRight.X, Bottom |-> bottomRight.Y]>>
                         ELSE <<>>
    IN  ConcatAll([i \in DOMAIN points |-> CellAt(i)])

\* "Check if word center is inside cell", with "const tolerance = 1.0"
WordInCell(word, cellBBox) ==
    /\ word.Box.X0 + word.Box.X1 >= 2 * (cellBBox.X0 - 1)
    /\ word.Box.X0 + word.Box.X1 <= 2 * (cellBBox.X1 + 1)
    /\ word.Box.Y0 + word.Box.Y1 >= 2 * (cellBBox.Top - 1)
    /\ word.Box.Y0 + word.Box.Y1 <= 2 * (cellBBox.Bottom + 1)

\* "Build cell content": a newline (10) after a vertical gap of more than 2,
\* a space (32) otherwise
TableCellContent(cellWords) ==
    ConcatAll([i \in DOMAIN cellWords |->
        (IF i = 1 THEN <<>>
         ELSE IF cellWords[i].Box.Y0 - cellWords[i - 1].Box.Y1 > 2 THEN <<10>> ELSE <<32>>)
            \o cellWords[i].Text])

createTable(cells, words) ==
    LET bbox == [X0 |-> MinOfSet({cells[i].X0 : i \in DOMAIN cells}),
                 Top |-> MinOfSet({cells[i].Top : i \in DOMAIN cells}),
                 X1 |-> MaxOfSet({cells[i].X1 : i \in DOMAIN cells}),
                 Bottom |-> MaxOfSet({cells[i].Bottom : i \in DOMAIN cells})]
        groups == ClusterByPosition([i \in DOMAIN cells |-> 2 * cells[i].Top], 1, <<>>)
        rows == SortSlice([k \in DOMAIN groups |->
                              [top |-> groups[k].x \div 2,
                               cells |-> SortSlice([m \in DOMAIN groups[k].words |->
                                                       cells[groups[k].words[m]]], "X0")]],
                          "rowTop")
        CellOf(cellBBox) ==
            LET Inside(word) == WordInCell(word, cellBBox)
                cellWords == SortSlice(SelectSeq(words, Inside), "cellWord")
            IN  [BBox |-> cellBBox, Content |-> TableCellContent(cellWords), Words |-> cellWords]
        tableRows == [k \in DOMAIN rows |->
                         [Cells |-> [m \in DOMAIN rows[k].cells |-> CellOf(rows[k].cells[m])],
                          BBox |-> [X0 |-> rows[k].cells[1].X0, Top |-> rows[k].top,
                                    X1 |-> rows[k].cells[Len(rows[k].cells)].X1,
                                    Bottom |-> rows[k].cells[1].Bottom]]]
        maxCols == MaxOfSet({0} \cup {Len(tableRows[k].Cells) : k \in DOMAIN tableRows})
        HasContent(row) == \E m \in DOMAIN row.Cells : Len(row.Cells[m].Content) > 0
        nonEmptyRows == SelectSeq(tableRows, HasContent)
    IN  IF Len(cells) = 0
        THEN [BBox |-> [X0 |-> 0, Top |-> 0, X1 |-> 0, Bottom |-> 0], Rows |-> <<>>,
              Cells |-> <<>>, NumRows |-> 0, NumCols |-> 0]
        ELSE [BBox |-> bbox, Rows |-> nonEmptyRows, Cells |-> cells,
              NumRows |-> Len(nonEmptyRows), NumCols |-> maxCols]

\* DetectTables, "Get edges based on strategy"
PageEdges(pageLines, words, settings) ==
    LET vLines == SelectSeq(pageLines, IsV)
        IsHLine(e) == e.Orientation = "h"
        hLines == SelectSeq(pageLines, IsHLine)
        fromV == IF settings.VerticalStrategy \in {"lines", "lines_text"} THEN vLines ELSE <<>>
        textV == IF /\ \/ Len(fromV) = 0 /\ settings.VerticalStrategy = "lines"
                       \/ settings.VerticalStrategy \in {"text", "lines_text"}
                    /\ Len(words) > 0
                 THEN wordsToEdgesVertical(words, settings.MinWordsVertical) ELSE <<>>
        fromH == IF settings.HorizontalStrategy \in {"lines", "lines_text"} THEN hLines ELSE <<>>
        textH == IF /\ \/ Len(fromH) = 0 /\ settings.HorizontalStrategy = "lines"
                       \/ settings.HorizontalStrategy \in {"text", "lines_text"}
                    /\ Len(words) > 0
                 THEN wordsToEdgesHorizontal(words, settings.MinWordsHorizontal) ELSE <<>>
    IN  fromV \o textV \o fromH \o textH

\* words are the words of the page's paragraphs, line by line
DetectTables(pageLines, words, settings) ==
    LET edges == PageEdges(pageLines, words, settings)
        merged == filterEdgesByLength(mergeEdges(edges, settings), settings.EdgeMinLength)
        cells == intersectionsToCells(findIntersections(merged, settings))
        tableGroups == cellsToTables(cells)
    IN  IF Len(edges) = 0 \/ Len(words) = 0 THEN <<>>
        ELSE [t \in DOMAIN tableGroups |-> createTable(tableGroups[t], words)]

MaxGridWords == 6

GridWord(text, x0, y0, x1, y1) ==
    [Text |-> <<text>>, Box |-> [X0 |-> x0, Y0 |-> y0, X1 |-> x1, Y1 |-> y1]]

\* three rows of two words, a word whose centre lies on x = 150 and a word
\* whose centre lies half a point above y = 120
GridWordPool ==
    << GridWord(65, 60, 104, 90, 114), GridWord(66, 160, 104, 190, 114),
       GridWord(67, 60, 124, 90, 134), GridWord(68, 160, 124, 190, 134),
       GridWord(69, 60, 144, 90, 154), GridWord(70, 160, 144, 190, 154),
       GridWord(71, 135, 104, 165, 114), GridWord(72, 60, 109, 90, 130) >>

GridColumns == {{50, 150, 250}, {50, 250}}
GridRows == {{100, 120, 140, 160}, {100, 120, 140}, {100, 140}}

\* ruling lines through xs and ys, each drawn whole or, the horizontal ones,
\* column by column
GridLines(xs, ys, style) ==
    LET xSeq == SortInts(xs)
        ySeq == SortInts(ys)
        x0 == xSeq[1]
        x1 == xSeq[Len(xSeq)]
        vs == [k \in DOMAIN xSeq |-> VEdge(xSeq[k], ySeq[1], ySeq[Len(ySeq)])]
        hs == IF style = "whole"
              THEN [k \in DOMAIN ySeq |-> HEdge(x0, x1, ySeq[k])]
              ELSE ConcatAll([k \in DOMAIN ySeq |->
                       [m \in 1..(Len(xSeq) - 1) |-> HEdge(xSeq[m], xSeq[m + 1], ySeq[k])]])
    IN  hs \o vs

\* the page carries ruling lines
DrawGrid ==
    /\ tdPc = "input"
    /\ tdLines = <<>>
    /\ \E xs \in GridColumns, ys \in GridRows, style \in {"whole", "pieces"} :
          /\ style = "pieces" => Cardinality(xs) > 2
          /\ tdLines' = GridLines(xs, ys, style)
    /\ UNCHANGED <<tdWords, tdOut, tdPc>>
    /\ UNCHANGED nonTdVars

\* the page carries one more word, later in the pool than the words so far
AddGridWord ==
    /\ tdPc = "input"
    /\ Len(tdWords) < MaxGridWords
    /\ \E k \in DOMAIN GridWordPool :
          /\ \A i \in DOMAIN tdWords : \E j \in 1..(k - 1) : GridWordPool[j] = tdWords[i]
          /\ tdWords' = Append(tdWords, GridWordPool[k])
    /\ UNCHANGED <<tdLines, tdOut, tdPc>>
    /\ UNCHANGED nonTdVars

CallDetectTables ==
    /\ tdPc = "input"
    /\ tdOut' = DetectTables(tdLines, tdWords, DefaultTableSettings)
    /\ tdPc' = "detected"
    /\ UNCHANGED <<tdLines, tdWords>>
    /\ UNCHANGED nonTdVars

TdNext == DrawGrid \/ AddGridWord \/ CallDetectTables

TdInit == ConvInit /\ config = DefaultConfig /\ OtherIdle

SpecTables == TdInit /\ [][TdNext]_vars

\* the edges DetectTables starts from, and the grid lines they lie on
TdEdges == PageEdges(tdLines, tdWords, DefaultTableSettings)
TdXs == {TdEdges[i].X0 : i \in {j \in DOMAIN TdEdges : TdEdges[j].Orientation = "v"}}
TdYs == {TdEdges[i].Top : i \in {j \in DOMAIN TdEdges : TdEdges[j].Orientation = "h"}}

\* every grid line runs from the first to the last line that crosses it, and
\* two grid lines lie farther apart than the snap tolerance
CompleteGrid ==
    /\ Cardinality(TdXs) >= 2 /\ Cardinality(TdYs) >= 2
    /\ \A x \in TdXs : \A y \in TdYs \ {MaxOfSet(TdYs)} :
          \E i \in DOMAIN TdEdges :
              /\ TdEdges[i].Orientation = "v" /\ TdEdges[i].X0 = x
              /\ TdEdges[i].Top <= y
              /\ TdEdges[i].Bottom >= MinOfSet({z \in TdYs : z > y})
    /\ \A y \in TdYs : \A x \in TdXs \ {MaxOfSet(TdXs)} :
          \E i \in DOMAIN TdEdges :
              /\ TdEdges[i].Orientation = "h" /\ TdEdges[i].Top = y
              /\ TdEdges[i].X0 <= x
              /\ TdEdges[i].X1 >= MinOfSet({z \in TdXs : z > x})
    /\ \A i \in DOMAIN TdEdges :
          /\ TdEdges[i].X0 >= MinOfSet(TdXs) /\ TdEdges[i].X1 <= MaxOfSet(TdXs)
          /\ TdEdges[i].Top >= MinOfSet(TdYs) /\ TdEdges[i].Bottom <= MaxOfSet(TdYs)
    /\ \A a, b \in TdXs : a # b => Abs(a - b) > DefaultTableSettings.SnapXTolerance
    /\ \A a, b \in TdYs : a # b => Abs(a - b) > DefaultTableSettings.SnapYTolerance

\* the grid rows that hold the centre of a word, from the top
GridRowsWithWords ==
    LET ySeq == SortInts(TdYs)
        Holds(k) == \E i \in DOMAIN tdWords :
                        /\ tdWords[i].Box.Y0 + tdWords[i].Box.Y1 >= 2 * ySeq[k]
                        /\ tdWords[i].Box.Y0 + tdWords[i].Box.Y1 <= 2 * ySeq[k + 1]
                        /\ tdWords[i].Box.X0 + tdWords[i].Box.X1 >= 2 * MinOfSet(TdXs)
                        /\ tdWords[i].Box.X0 + tdWords[i].Box.X1 <= 2 * MaxOfSet(TdXs)
        kept == SortInts({k \in 1..(Len(ySeq) - 1) : Holds(k)})
    IN  [r \in DOMAIN kept |-> [Top |-> ySeq[kept[r]], Bottom |-> ySeq[kept[r] + 1]]]

\* C26: on a page with words whose edges form a complete grid of two or more
\* cells, DetectTables returns one table; its rows are the grid rows that hold
\* a word, from the top, each with one cell for each grid column from the
\* left, and NumRows and NumCols are the numbers of those rows and columns.
C26_GridGivesOneTable ==
    (tdPc = "detected" /\ tdWords # <<>> /\ CompleteGrid
        /\ (Cardinality(TdXs) - 1) * (Cardinality(TdYs) - 1) >= 2) =>
        LET xSeq == SortInts(TdXs)
            expected == GridRowsWithWords
        IN  /\ Len(tdOut) = 1
            /\ Len(tdOut[1].Rows) = Len(expected)
            /\ tdOut[1].NumRows = Len(expected)
            /\ tdOut[1].NumCols = Len(xSeq) - 1
            /\ \A r \in DOMAIN tdOut[1].Rows :
                  /\ Len(tdOut[1].Rows[r].Cells) = Len(xSeq) - 1
                  /\ \A m \in DOMAIN tdOut[1].Rows[r].Cells :
                        tdOut[1].Rows[r].Cells[m].BBox =
                            [X0 |-> xSeq[m], Top |-> expected[r].Top,
                             X1 |-> xSeq[m + 1], Bottom |-> expected[r].Bottom]

\* C30: in a table DetectTables built with createTable, no word of the page
\* is among the words of two cells.
C30_WordInAtMostOneCell ==
    tdPc = "detected" =>
        \A t \in DOMAIN tdOut : \A i \in DOMAIN tdWords :
            Cardinality({rm \in {<<r, m>> : r \in DOMAIN tdOut[t].Rows, m \in 1..3} :
                            /\ rm[2] \in DOMAIN tdOut[t].Rows[rm[1]].Cells
                            /\ tdWords[i] \in SeqRange(tdOut[t].Rows[rm[1]].Cells[rm[2]].Words)})
                <= 1

====
